---- MODULE Spec2Model ----
(***************************************************************************)
(* A model of dap-js: the DAP registration record (DapRegistration), the   *)
(* compact JWS codec and verifier (Crypto), and the identifier types.      *)
(*                                                                         *)
(* Strings are sequences of character codes (ASCII), byte arrays are       *)
(* sequences of numbers 0..255.  Conversions (base64url, UTF-8, JSON) are  *)
(* computed character by character as the code and its libraries compute   *)
(* them.  SHA-256 and the signature primitive are external: they are       *)
(* modelled by small deterministic functions (see Sha256Digest, SignerSign)*)
(***************************************************************************)
EXTENDS Integers, Sequences, FiniteSets, TLC

\* reg: the record the caller works on; signedAs: the calls of sign() that
\* have completed; held: what the caller holds beside the record (a JWS, an
\* input, a parsed value, an id, the calls of sign() in flight); out: the
\* outcome of the last operation; gen: the UUID generator of the process.
VARIABLES reg, signedAs, held, out, gen

vars == <<reg, signedAs, held, out, gen>>

(***************************************************************************)
(* Characters used by the code's string literals.                          *)
(***************************************************************************)
DOT == 46       \* '.'
HASH == 35      \* '#'

\* The sequence s without its first n elements.
Drop(s, n) == SubSeq(s, n + 1, Len(s))

\* The first n elements of s.
Take(s, n) == SubSeq(s, 1, n)

(***************************************************************************)
(* String.prototype.split(sep) for a one-character separator: the          *)
(* segments between the separators, empty segments kept.                   *)
(***************************************************************************)
Split(s, sep) ==
    LET P == {i \in 1..Len(s) : s[i] = sep}
        n == Cardinality(P)
        \* The position of the k-th separator; 0 and Len(s) + 1 bound the string.
        pos(k) == IF k = 0 THEN 0
                  ELSE IF k = n + 1 THEN Len(s) + 1
                  ELSE CHOOSE p \in P : Cardinality({q \in P : q < p}) = k - 1
    IN  [k \in 1..(n + 1) |-> SubSeq(s, pos(k - 1) + 1, pos(k) - 1)]

(***************************************************************************)
(* Convert.string(s).toUint8Array() and its inverse TextDecoder.decode:    *)
(* UTF-8.  Code points below 128 are one byte, those below 2048 two bytes; *)
(* the model's strings hold no others.  A byte sequence that is not UTF-8  *)
(* decodes to U+FFFD (65533) per offending byte.                           *)
(***************************************************************************)
IsAscii(s) == \A i \in 1..Len(s) : s[i] < 128

RECURSIVE Utf8EncodeFrom(_)
Utf8EncodeFrom(s) ==
    IF Len(s) = 0 THEN <<>>
    ELSE IF s[1] < 128 THEN <<s[1]>> \o Utf8EncodeFrom(Tail(s))
    ELSE <<192 + (s[1] \div 64), 128 + (s[1] % 64)>> \o Utf8EncodeFrom(Tail(s))

Utf8Encode(s) == IF IsAscii(s) THEN s ELSE Utf8EncodeFrom(s)

RECURSIVE Utf8DecodeFrom(_)
Utf8DecodeFrom(b) ==
    IF Len(b) = 0 THEN <<>>
    ELSE IF b[1] < 128 THEN <<b[1]>> \o Utf8DecodeFrom(Tail(b))
    ELSE IF /\ b[1] >= 194 /\ b[1] < 224 /\ Len(b) >= 2
            /\ b[2] >= 128 /\ b[2] < 192
         THEN <<(b[1] - 192) * 64 + (b[2] - 128)>> \o Utf8DecodeFrom(Drop(b, 2))
    ELSE <<65533>> \o Utf8DecodeFrom(Tail(b))

Utf8Decode(b) == IF IsAscii(b) THEN b ELSE Utf8DecodeFrom(b)

(***************************************************************************)
(* Convert.uint8Array(b).toBase64Url(): RFC 4648 base64url, no padding.    *)
(***************************************************************************)
Base64UrlChar(v) ==
    IF v < 26 THEN 65 + v
    ELSE IF v < 52 THEN 97 + (v - 26)
    ELSE IF v < 62 THEN 48 + (v - 52)
    ELSE IF v = 62 THEN 45
    ELSE 95

\* The 6-bit value of a base64url character, -1 for any other character.
Base64UrlValue(c) ==
    IF c >= 65 /\ c <= 90 THEN c - 65
    ELSE IF c >= 97 /\ c <= 122 THEN c - 97 + 26
    ELSE IF c >= 48 /\ c <= 57 THEN c - 48 + 52
    ELSE IF c = 45 THEN 62
    ELSE IF c = 95 THEN 63
    ELSE -1

toBase64Url(b) ==
    LET n == Len(b)
        byte(i) == IF i <= n THEN b[i] ELSE 0
        \* The j-th 6-bit group of the bits of b, zero bits added at the end.
        sextet(j) ==
            LET g == (j - 1) \div 4
                k == (j - 1) % 4
                b1 == byte(3 * g + 1)
                b2 == byte(3 * g + 2)
                b3 == byte(3 * g + 3)
            IN  IF k = 0 THEN b1 \div 4
                ELSE IF k = 1 THEN (b1 % 4) * 16 + (b2 \div 16)
                ELSE IF k = 2 THEN (b2 % 16) * 4 + (b3 \div 64)
                ELSE b3 % 64
    IN  [j \in 1..((n * 4 + 2) \div 3) |-> Base64UrlChar(sextet(j))]

(***************************************************************************)
(* Convert.base64Url(s).toUint8Array(): the decoder throws on a character  *)
(* outside the alphabet and on left-over bits that are not zero padding.   *)
(* Result: [ok, bytes].                                                    *)
(***************************************************************************)
\* Trailing '=' (61) characters are ignored.
StripPadding(s) ==
    LET kept == {i \in 1..Len(s) : s[i] # 61}
        last == IF kept = {} THEN 0 ELSE CHOOSE i \in kept : \A j \in kept : j <= i
    IN  Take(s, last)

Base64UrlBytes(s) ==
    LET n == Len(s)
        v(i) == IF i <= n THEN Base64UrlValue(s[i]) ELSE 0
        byte(j) ==
            LET g == (j - 1) \div 3
                k == (j - 1) % 3
                c1 == v(4 * g + 1)
                c2 == v(4 * g + 2)
                c3 == v(4 * g + 3)
                c4 == v(4 * g + 4)
            IN  IF k = 0 THEN c1 * 4 + (c2 \div 16)
                ELSE IF k = 1 THEN (c2 % 16) * 16 + (c3 \div 4)
                ELSE (c3 % 4) * 64 + c4
    IN  [j \in 1..((n * 3) \div 4) |-> byte(j)]

\* Whether the characters of s (padding removed) decode: all of the
\* alphabet, and the bits left over after the last whole byte zero.
Base64UrlValid(s) ==
    /\ \A i \in 1..Len(s) : Base64UrlValue(s[i]) >= 0
    /\ \/ Len(s) % 4 = 0
       \/ Len(s) % 4 = 2 /\ Base64UrlValue(s[Len(s)]) % 16 = 0
       \/ Len(s) % 4 = 3 /\ Base64UrlValue(s[Len(s)]) % 4 = 0

Base64UrlDecode(s) ==
    IF Base64UrlValid(s)
    THEN [ok |-> TRUE, bytes |-> Base64UrlBytes(s)]
    ELSE [ok |-> FALSE, bytes |-> <<>>]

fromBase64Url(str) == Base64UrlDecode(StripPadding(str))

(***************************************************************************)
(* JavaScript values.  Every value is a record of one shape: t its type,   *)
(* s the characters of a string (or the digits of a number), m the members *)
(* of an object in insertion order, each [k |-> key, v |-> value].         *)
(***************************************************************************)
JsString(s) == [t |-> "string", s |-> s, m |-> <<>>]
JsNumber(digits) == [t |-> "number", s |-> digits, m |-> <<>>]
JsObject(members) == [t |-> "object", s |-> <<>>, m |-> members]
\* An array keeps its elements in m, each under the empty key.
JsArray(elements) ==
    [t |-> "array", s |-> <<>>,
     m |-> [i \in 1..Len(elements) |-> [k |-> <<>>, v |-> elements[i]]]]
\* A Uint8Array keeps its bytes in s.
JsBytes(bytes) == [t |-> "Uint8Array", s |-> bytes, m |-> <<>>]
JsUndefined == [t |-> "undefined", s |-> <<>>, m |-> <<>>]
JsNull == [t |-> "null", s |-> <<>>, m |-> <<>>]
JsTrue == [t |-> "boolean", s |-> <<116, 114, 117, 101>>, m |-> <<>>]
JsFalse == [t |-> "boolean", s |-> <<102, 97, 108, 115, 101>>, m |-> <<>>]

Member(k, v) == [k |-> k, v |-> v]

\* obj[key]: the member's value, undefined when there is none (also for a
\* string or a number, which have no such property).  Reading a property of
\* null or undefined throws a TypeError: see Throws(v).
Get(obj, key) ==
    IF \E i \in 1..Len(obj.m) : obj.m[i].k = key
    THEN obj.m[CHOOSE i \in 1..Len(obj.m) : obj.m[i].k = key].v
    ELSE JsUndefined

\* Whether reading a property of v throws a TypeError.
Throws(v) == v.t \in {"null", "undefined"}

\* obj[key] = v: an existing member keeps its place, a new one goes last.
Put(members, key, v) ==
    IF \E i \in 1..Len(members) : members[i].k = key
    THEN [i \in 1..Len(members) |->
             IF members[i].k = key THEN Member(key, v) ELSE members[i]]
    ELSE Append(members, Member(key, v))

\* JavaScript truthiness: !v is TRUE for undefined, null, "", 0 and false.
Falsy(v) ==
    \/ v.t \in {"undefined", "null"}
    \/ v.t = "string" /\ v.s = <<>>
    \/ v.t = "number" /\ v.s = <<48>>
    \/ v = JsFalse

(***************************************************************************)
(* JSON.stringify of a value built from strings, numbers, booleans, null   *)
(* and objects.  A member whose value is undefined is left out.  In a      *)
(* string, '"' (34) and '\' (92) are escaped with a backslash; the model's *)
(* strings hold no control characters.                                     *)
(***************************************************************************)
RECURSIVE JsonEscapeFrom(_)
JsonEscapeFrom(s) ==
    IF Len(s) = 0 THEN <<>>
    ELSE IF s[1] \in {34, 92} THEN <<92, s[1]>> \o JsonEscapeFrom(Tail(s))
    ELSE <<s[1]>> \o JsonEscapeFrom(Tail(s))

JsonEscape(s) ==
    IF \A i \in 1..Len(s) : s[i] \notin {34, 92} THEN s ELSE JsonEscapeFrom(s)

JsonQuote(s) == <<34>> \o JsonEscape(s) \o <<34>>

RECURSIVE JsonStringify(_)
RECURSIVE JsonMembers(_, _)
RECURSIVE JsonElements(_, _)
\* The elements of an array, separated by commas; undefined becomes null.
JsonElements(m, first) ==
    IF Len(m) = 0 THEN <<>>
    ELSE (IF first THEN <<>> ELSE <<44>>)
         \o (IF m[1].v.t = "undefined" THEN <<110, 117, 108, 108>>
             ELSE JsonStringify(m[1].v))
         \o JsonElements(Tail(m), FALSE)

JsonMembers(m, first) ==
    IF Len(m) = 0 THEN <<>>
    ELSE IF m[1].v.t = "undefined" THEN JsonMembers(Tail(m), first)
    ELSE (IF first THEN <<>> ELSE <<44>>)
         \o JsonQuote(m[1].k) \o <<58>> \o JsonStringify(m[1].v)
         \o JsonMembers(Tail(m), FALSE)

JsonStringify(v) ==
    IF v.t = "string" THEN JsonQuote(v.s)
    ELSE IF v.t \in {"number", "boolean"} THEN v.s
    ELSE IF v.t = "null" THEN <<110, 117, 108, 108>>
    ELSE IF v.t = "object" THEN <<123>> \o JsonMembers(v.m, TRUE) \o <<125>>
    ELSE IF v.t = "array" THEN <<91>> \o JsonElements(v.m, TRUE) \o <<93>>
    ELSE <<>>

(***************************************************************************)
(* JSON.parse, for texts without whitespace and without arrays (the        *)
(* model's inputs hold neither): strings with the escapes \" and \\,       *)
(* integers, true, false, null, and objects of these.  Each parser takes   *)
(* the text and a position and returns [ok, val, next]; a text that is not *)
(* JSON gives ok = FALSE (the SyntaxError JSON.parse throws).              *)
(***************************************************************************)
JsonFail == [ok |-> FALSE, val |-> JsUndefined, next |-> 0]
JsonOk(v, next) == [ok |-> TRUE, val |-> v, next |-> next]

StartsWithAt(s, i, lit) ==
    /\ i + Len(lit) - 1 <= Len(s)
    /\ \A j \in 1..Len(lit) : s[i + j - 1] = lit[j]

\* The characters of a string literal whose opening quote is before i: up
\* to the first '"' that no backslash escapes.
RECURSIVE JsonParseEscaped(_, _, _)
JsonParseEscaped(s, i, acc) ==
    IF i > Len(s) THEN JsonFail
    ELSE IF s[i] = 34 THEN JsonOk(JsString(acc), i + 1)
    ELSE IF s[i] = 92 THEN
        IF i + 1 <= Len(s) /\ s[i + 1] \in {34, 92}
        THEN JsonParseEscaped(s, i + 2, Append(acc, s[i + 1]))
        ELSE JsonFail
    ELSE IF s[i] < 32 THEN JsonFail
    ELSE JsonParseEscaped(s, i + 1, Append(acc, s[i]))

\* j is the first '"', '\' or control character at or after i.
JsonParseCharsTo(s, i, j) ==
    IF s[j] = 34 THEN JsonOk(JsString(SubSeq(s, i, j - 1)), j + 1)
    ELSE IF s[j] = 92 THEN JsonParseEscaped(s, j, SubSeq(s, i, j - 1))
    ELSE JsonFail

JsonStops(s, i) == {j \in i..Len(s) : s[j] \in {34, 92} \/ s[j] < 32}

JsonParseChars(s, i) ==
    IF JsonStops(s, i) = {} THEN JsonFail
    ELSE JsonParseCharsTo(s, i, CHOOSE x \in JsonStops(s, i) :
                                    \A y \in JsonStops(s, i) : x <= y)

RECURSIVE JsonParseDigits(_, _, _)
JsonParseDigits(s, i, acc) ==
    IF i <= Len(s) /\ s[i] >= 48 /\ s[i] <= 57
    THEN JsonParseDigits(s, i + 1, Append(acc, s[i]))
    ELSE IF Len(acc) = 0 \/ (Len(acc) > 1 /\ acc[1] = 48) THEN JsonFail
    ELSE JsonOk(JsNumber(acc), i)

RECURSIVE JsonParseValue(_, _)
RECURSIVE JsonParseMembers(_, _, _)

\* After a member's value val: '}' (125) ends the object, ',' (44) goes on.
JsonParseAfterValue(s, acc, key, val) ==
    IF ~val.ok \/ val.next > Len(s) THEN JsonFail
    ELSE IF s[val.next] = 125
    THEN JsonOk(JsObject(Put(acc, key.val.s, val.val)), val.next + 1)
    ELSE IF s[val.next] = 44
    THEN JsonParseMembers(s, val.next + 1, Put(acc, key.val.s, val.val))
    ELSE JsonFail

\* After a member's key: ':' (58), then the value.
JsonParseAfterKey(s, acc, key) ==
    IF ~key.ok \/ key.next > Len(s) \/ s[key.next] # 58 THEN JsonFail
    ELSE JsonParseAfterValue(s, acc, key, JsonParseValue(s, key.next + 1))

JsonParseMembers(s, i, acc) ==
    IF i > Len(s) \/ s[i] # 34 THEN JsonFail
    ELSE JsonParseAfterKey(s, acc, JsonParseChars(s, i + 1))

JsonNegative(n) ==
    IF n.ok THEN JsonOk(JsNumber(<<45>> \o n.val.s), n.next) ELSE JsonFail

JsonParseValue(s, i) ==
    IF i > Len(s) THEN JsonFail
    ELSE IF s[i] = 34 THEN JsonParseChars(s, i + 1)
    ELSE IF s[i] = 123 THEN
        IF i + 1 <= Len(s) /\ s[i + 1] = 125 THEN JsonOk(JsObject(<<>>), i + 2)
        ELSE JsonParseMembers(s, i + 1, <<>>)
    ELSE IF StartsWithAt(s, i, <<110, 117, 108, 108>>) THEN JsonOk(JsNull, i + 4)
    ELSE IF StartsWithAt(s, i, JsTrue.s) THEN JsonOk(JsTrue, i + 4)
    ELSE IF StartsWithAt(s, i, JsFalse.s) THEN JsonOk(JsFalse, i + 5)
    ELSE IF s[i] = 45 THEN JsonNegative(JsonParseDigits(s, i + 1, <<>>))
    ELSE JsonParseDigits(s, i, <<>>)

\* The whole text must be one value.
JsonWhole(text, r) ==
    IF r.ok /\ r.next = Len(text) + 1
    THEN [ok |-> TRUE, val |-> r.val]
    ELSE [ok |-> FALSE, val |-> JsUndefined]

\* JSON.parse(text): [ok, val]
JsonParse(text) == JsonWhole(text, JsonParseValue(text, 1))

(***************************************************************************)
(* Property names and other string literals of the code.                   *)
(***************************************************************************)
STR_alg == <<97, 108, 103>>        \* "alg"
STR_kid == <<107, 105, 100>>        \* "kid"
STR_id == <<105, 100>>             \* "id"
STR_handle == <<104, 97, 110, 100, 108, 101>>   \* "handle"
STR_did == <<100, 105, 100>>       \* "did"
STR_domain == <<100, 111, 109, 97, 105, 110>>  \* "domain"
STR_signature == <<115, 105, 103, 110, 97, 116, 117, 114, 101>>  \* "signature"
STR_reg == <<114, 101, 103>>       \* "reg"

(***************************************************************************)
(* canonicalize(payload): the object's keys sorted (Array.prototype.sort   *)
(* orders strings by code unit), then JSON.stringify.                      *)
(***************************************************************************)
RECURSIVE StrLess(_, _)
StrLess(a, b) ==
    IF Len(b) = 0 THEN FALSE
    ELSE IF Len(a) = 0 THEN TRUE
    ELSE IF a[1] # b[1] THEN a[1] < b[1]
    ELSE StrLess(Tail(a), Tail(b))

RECURSIVE InsertSorted(_, _)
InsertSorted(m, e) ==
    IF Len(m) = 0 THEN <<e>>
    ELSE IF StrLess(e.k, m[1].k) THEN <<e>> \o m
    ELSE <<m[1]>> \o InsertSorted(Tail(m), e)

RECURSIVE SortMembers(_)
SortMembers(m) ==
    IF Len(m) = 0 THEN <<>>
    ELSE InsertSorted(SortMembers(Tail(m)), m[1])

\* sortObjKeys: an object (not null, not an array) is rebuilt with its keys
\* sorted and its values treated the same way; any other value, an array
\* included, is returned as it is.
RECURSIVE sortObjKeys(_)
sortObjKeys(obj) ==
    IF obj.t = "object"
    THEN JsObject([i \in 1..Len(obj.m) |->
                      Member(SortMembers(obj.m)[i].k,
                             sortObjKeys(SortMembers(obj.m)[i].v))])
    ELSE obj

canonicalize(payload) == JsonStringify(sortObjKeys(payload))

(***************************************************************************)
(* Sha256.digest is an external primitive.  It is modelled by a polynomial *)
(* hash of the bytes modulo the prime 8388593, returned as 3 bytes; the    *)
(* inputs the model hashes have pairwise different hashes.                 *)
(***************************************************************************)
HashStep(h, byte) == (h * 251 + byte + 1) % 8388593

\* The hash of bytes[i..], continued from h.  (h is compared before it is
\* passed on so that it is computed at each step, not as one nested
\* expression at the end.)
RECURSIVE HashFold(_, _, _)
HashFold(bytes, i, h) ==
    IF i > Len(bytes) \/ h < 0 THEN h
    ELSE IF i + 3 <= Len(bytes)
    THEN HashFold(bytes, i + 4,
                  HashStep(HashStep(HashStep(HashStep(h, bytes[i]), bytes[i + 1]),
                                    bytes[i + 2]), bytes[i + 3]))
    ELSE HashFold(bytes, i + 1, HashStep(h, bytes[i]))

HashBytes(h) == <<h \div 65536, (h \div 256) % 256, h % 256>>

Sha256Digest(bytes) == HashBytes(HashFold(bytes, 1, 7))

\* Crypto.digest(payload)
digest(payload) == Sha256Digest(Utf8Encode(canonicalize(payload)))

(***************************************************************************)
(* The signer capability and the key manager are external.  A private key  *)
(* is a number; the public key of private key k is k as well.  A signature *)
(* is a keyed hash of the data: deterministic, and a signature made with   *)
(* one key does not verify under another.                                  *)
(***************************************************************************)
SignerSign(key, data) == Sha256Digest(<<key>> \o data)

KeyManagerVerify(publicKey, data, signature) ==
    signature = SignerSign(publicKey, data)

(***************************************************************************)
(* The DIDs of the model and what DidResolver.dereference returns for a    *)
(* DID URL: a verification method with or without a publicKeyJwk, another  *)
(* resource (a service, a whole DID document), or nothing (contentStream   *)
(* null) for a DID that does not resolve.                                  *)
(***************************************************************************)
DID_A == <<100, 105, 100, 58, 101, 120, 58, 97>>   \* "did:ex:a"
DID_B == <<100, 105, 100, 58, 101, 120, 58, 98>>   \* "did:ex:b"
DID_C == <<100, 105, 100, 58, 101, 120, 58, 99>>   \* "did:ex:c": its key is not a JWK
DID_D == <<100, 105, 100, 58, 101, 120, 58, 100>>  \* "did:ex:d": does not resolve

Fragment(did, f) == did \o <<HASH>> \o f

KEY_0 == <<48>>            \* fragment "0"
SERVICE_1 == <<115>>       \* fragment "s"

DerefVM(key) == [kind |-> "verificationMethod", hasJwk |-> TRUE, key |-> key]
DerefVMNoJwk == [kind |-> "verificationMethod", hasJwk |-> FALSE, key |-> 0]
DerefService == [kind |-> "service", hasJwk |-> FALSE, key |-> 0]
DerefDocument == [kind |-> "document", hasJwk |-> FALSE, key |-> 0]
DerefNull == [kind |-> "null", hasJwk |-> FALSE, key |-> 0]

dereference(kid) ==
    IF kid = Fragment(DID_A, KEY_0) THEN DerefVM(1)
    ELSE IF kid = Fragment(DID_B, KEY_0) THEN DerefVM(2)
    ELSE IF kid = Fragment(DID_C, KEY_0) THEN DerefVMNoJwk
    ELSE IF kid = Fragment(DID_A, SERVICE_1) THEN DerefService
    ELSE IF kid \in {DID_A, DID_B, DID_C} THEN DerefDocument
    ELSE DerefNull

isDidVerificationMethod(content) == content.kind = "verificationMethod"

isPublicJwk(content) == content.hasJwk

(***************************************************************************)
(* The BearerDids a caller can sign with: the DID's uri, and the key id,   *)
(* algorithm and private key of its signer.  Mallory's signer names        *)
(* Alice's key id but holds another key; Dan's DID does not resolve.       *)
(***************************************************************************)
ALG_EdDSA == <<69, 100, 68, 83, 65>>   \* "EdDSA"

BearerDid(uri, keyId, key) ==
    [uri |-> uri, keyId |-> keyId, algorithm |-> ALG_EdDSA, key |-> key]

Alice == BearerDid(DID_A, Fragment(DID_A, KEY_0), 1)
Bob == BearerDid(DID_B, Fragment(DID_B, KEY_0), 2)
Mallory == BearerDid(DID_A, Fragment(DID_A, KEY_0), 3)
Dan == BearerDid(DID_D, Fragment(DID_D, KEY_0), 4)

Signers == {Alice, Bob, Mallory, Dan}

(***************************************************************************)
(* The outcome of a call: ok with the value returned, or the class and     *)
(* message of the error thrown; calls lists the external calls made (key   *)
(* resolution, cryptographic verification), in order.                      *)
(***************************************************************************)
Returned(val, calls) ==
    [ok |-> TRUE, err |-> "", msg |-> "", val |-> val, calls |-> calls]

Thrown(err, msg, calls) ==
    [ok |-> FALSE, err |-> err, msg |-> msg, val |-> JsUndefined, calls |-> calls]

(***************************************************************************)
(* Crypto.sign({ did, payload, detached })                                 *)
(***************************************************************************)
JwsHeader(signer) ==
    JsObject(<<Member(STR_alg, JsString(signer.algorithm)),
               Member(STR_kid, JsString(signer.keyId))>>)

\* A compact JWS that always carries its payload.
CompactJwsAttached(signer, jwsHeaderBase64Url, payloadBase64Url, detached) ==
    jwsHeaderBase64Url \o <<DOT>> \o payloadBase64Url \o <<DOT>>
    \o toBase64Url(SignerSign(signer.key,
           Utf8Encode(jwsHeaderBase64Url \o <<DOT>> \o payloadBase64Url)))

\* The compact JWS of the two encoded segments: the signature is made over
\* header '.' payload, and a detached JWS leaves the payload out.
CompactJws(signer, jwsHeaderBase64Url, payloadBase64Url, detached) ==
    (IF detached
     THEN jwsHeaderBase64Url \o <<DOT, DOT>>
     ELSE jwsHeaderBase64Url \o <<DOT>> \o payloadBase64Url \o <<DOT>>)
    \o toBase64Url(SignerSign(signer.key,
           Utf8Encode(jwsHeaderBase64Url \o <<DOT>> \o payloadBase64Url)))

CryptoSign(did, payload, detached) ==
    CompactJws(did, toBase64Url(Utf8Encode(JsonStringify(JwsHeader(did)))),
               toBase64Url(payload), detached)

(***************************************************************************)
(* Crypto.verify({ jws, detachedPayload }).  jws is a JavaScript value;    *)
(* detachedPayload is [given, bytes].                                      *)
(***************************************************************************)
NoPayload == [given |-> FALSE, bytes |-> <<>>]
Detached(bytes) == [given |-> TRUE, bytes |-> bytes]

\* Convert.base64Url(s).toObject(): base64url decoding, UTF-8 decoding, then
\* JSON.parse; [ok, val].
DecodedToObject(decoded) ==
    IF ~decoded.ok THEN [ok |-> FALSE, val |-> JsUndefined]
    ELSE JsonParse(Utf8Decode(decoded.bytes))

toObject(s) == DecodedToObject(fromBase64Url(s))

\* The signature check and the value returned: signedDataBytes the bytes of
\* header '.' payload, signatureBytes the decoded third segment.
VerifySignature(kid, publicKey, signedDataBytes, signatureBytes) ==
    IF ~signatureBytes.ok
    THEN Thrown("SyntaxError", "Non-base64url character", <<"dereference">>)
    ELSE IF ~KeyManagerVerify(publicKey, signedDataBytes, signatureBytes.bytes)
    THEN Thrown("InvalidJws",
                "Signature verification failed: Integrity mismatch",
                <<"dereference", "verify">>)
    ELSE Returned(JsString(Split(kid, HASH)[1]), <<"dereference", "verify">>)

\* The checks of what the kid dereferences to.
VerifyKey(parts, payloadBase64Url, kid, dereferencingResult) ==
    IF ~isDidVerificationMethod(dereferencingResult)
    THEN Thrown("InvalidJws",
                "Signature verification failed: Expected key id (\"kid\") in JWS header to dereference to a DID Document Verification Method",
                <<"dereference">>)
    ELSE IF ~isPublicJwk(dereferencingResult)
    THEN Thrown("Error",
                "Signature verification failed: Expected kid in JWS header to dereference to a DID Document Verification Method with publicKeyJwk",
                <<"dereference">>)
    ELSE VerifySignature(kid, dereferencingResult.key,
                         Utf8Encode(parts[1] \o <<DOT>> \o payloadBase64Url),
                         fromBase64Url(parts[3]))

\* The checks of the decoded header.  Reading jwsHeader.alg throws a
\* TypeError when the header decoded to null.
VerifyHeader(parts, payloadBase64Url, jwsHeader) ==
    IF ~jwsHeader.ok
    THEN Thrown("InvalidJws",
                "Signature verification failed: Invalid JWS header", <<>>)
    ELSE IF Throws(jwsHeader.val)
    THEN Thrown("TypeError", "Cannot read properties of null", <<>>)
    ELSE IF \/ Falsy(Get(jwsHeader.val, STR_alg))
            \/ Get(jwsHeader.val, STR_alg).t # "string"
    THEN Thrown("InvalidJws",
                "Signature verification failed: Missing or invalid algorithm (\"alg\") in JWS header",
                <<>>)
    ELSE IF \/ Falsy(Get(jwsHeader.val, STR_kid))
            \/ Get(jwsHeader.val, STR_kid).t # "string"
    THEN Thrown("InvalidJws",
                "Signature verification failed: Missing or invalid key ID (\"kid\") in JWS header",
                <<>>)
    ELSE VerifyKey(parts, payloadBase64Url, Get(jwsHeader.val, STR_kid).s,
                   dereference(Get(jwsHeader.val, STR_kid).s))

\* The checks of the segments, with the signed data always taken from the
\* middle segment.
VerifyPartsEmbedded(parts, detachedPayload) ==
    IF Len(parts) # 3
    THEN Thrown("InvalidJws",
                "Signature verification failed: Expected Compact JWS with 3 parts",
                <<>>)
    ELSE IF detachedPayload.given /\ Len(parts[2]) # 0
    THEN Thrown("InvalidJws",
                "Signature verification failed: Expected detached JWS with empty payload",
                <<>>)
    ELSE VerifyHeader(parts, parts[2], toObject(parts[1]))

\* The checks of the segments jws.split('.') gives.
VerifyParts(parts, detachedPayload) ==
    IF Len(parts) # 3
    THEN Thrown("InvalidJws",
                "Signature verification failed: Expected Compact JWS with 3 parts",
                <<>>)
    ELSE IF detachedPayload.given /\ Len(parts[2]) # 0
    THEN Thrown("InvalidJws",
                "Signature verification failed: Expected detached JWS with empty payload",
                <<>>)
    ELSE VerifyHeader(parts,
                      IF detachedPayload.given
                      THEN toBase64Url(detachedPayload.bytes)
                      ELSE parts[2],
                      toObject(parts[1]))

CryptoVerify(jws, detachedPayload) ==
    IF jws.t # "string"
    THEN Thrown("InvalidJws",
                "Signature verification failed: Expected Compact JWS in string format",
                <<>>)
    ELSE VerifyParts(Split(jws.s, DOT), detachedPayload)

(***************************************************************************)
(* RegistrationId: a TypeID, [prefix, suffix].  The suffix is 26           *)
(* characters of lower-case Crockford base32, the first of them at most    *)
(* '7' (the encoding of 128 bits).                                         *)
(***************************************************************************)
TypeID(prefix, suffix) == [prefix |-> prefix, suffix |-> suffix]

\* "0123456789abcdefghjkmnpqrstvwxyz"
Base32Alphabet ==
    {c \in 48..57 : TRUE} \cup ({c \in 97..122 : TRUE} \ {105, 108, 111, 117})

\* this.value.toString(): prefix, '_' (95), suffix; the suffix alone when the
\* prefix is empty.
IdToString(id) ==
    IF Len(id.prefix) = 0 THEN id.suffix ELSE id.prefix \o <<95>> \o id.suffix

IsLowerAlpha(s) == \A i \in 1..Len(s) : s[i] >= 97 /\ s[i] <= 122

\* TypeID.fromString(str): [ok, id, msg], parts being str.split('_').
NoTypeID == TypeID(<<>>, <<>>)

BadTypeID(msg) == [ok |-> FALSE, id |-> NoTypeID, msg |-> msg]

NewTypeID(prefix, suffix) ==
    IF ~IsLowerAlpha(prefix) THEN BadTypeID("Invalid prefix")
    ELSE IF Len(suffix) # 26 THEN BadTypeID("Invalid length")
    ELSE IF suffix[1] > 55 THEN BadTypeID("Invalid suffix")
    ELSE IF \E i \in 1..Len(suffix) : suffix[i] \notin Base32Alphabet
    THEN BadTypeID("Invalid character")
    ELSE [ok |-> TRUE, id |-> TypeID(prefix, suffix), msg |-> ""]

TypeIDFromParts(parts) ==
    IF Len(parts) > 2 THEN BadTypeID("Invalid TypeID format")
    ELSE IF Len(parts) = 2 /\ Len(parts[1]) = 0
    THEN BadTypeID("Invalid TypeID. Prefix cannot be empty when there's a separator")
    ELSE NewTypeID(IF Len(parts) = 2 THEN parts[1] ELSE <<>>, parts[Len(parts)])

TypeIDFromString(str) == TypeIDFromParts(Split(str, 95))

\* RegistrationId.parse(id), id a JavaScript value: [ok, id, err, msg].  Any
\* error, the wrong-prefix one included, is caught and thrown again as
\* InvalidRegistrationId with the same message.
InvalidRegistrationId(msg) ==
    [ok |-> FALSE, id |-> NoTypeID, err |-> "InvalidRegistrationId", msg |-> msg]

\* RegistrationId.parse without the test of the type.
RegistrationIdOfAnyType(parsed) ==
    IF ~parsed.ok THEN InvalidRegistrationId(parsed.msg)
    ELSE [ok |-> TRUE, id |-> parsed.id, err |-> "", msg |-> ""]

RegistrationIdOf(parsed) ==
    IF ~parsed.ok THEN InvalidRegistrationId(parsed.msg)
    ELSE IF parsed.id.prefix # STR_reg
    THEN InvalidRegistrationId("Registration ID prefix must be \"reg\"")
    ELSE [ok |-> TRUE, id |-> parsed.id, err |-> "", msg |-> ""]

RegistrationIdParse(id) ==
    IF id.t # "string" THEN InvalidRegistrationId("id.split is not a function")
    ELSE RegistrationIdOf(TypeIDFromString(id.s))

(***************************************************************************)
(* Times and the counter of the id generator are wider than the integers   *)
(* of the checker: a value is kept as its two halves, hi * 2^24 + lo.      *)
(***************************************************************************)
Wide(hi, lo) == [hi |-> hi, lo |-> lo]

WideLess(a, b) == a.hi < b.hi \/ (a.hi = b.hi /\ a.lo < b.lo)

\* a + n, for 0 <= n < 2^24
WidePlus(a, n) ==
    IF a.lo + n < 2^24 THEN Wide(a.hi, a.lo + n)
    ELSE Wide(a.hi + 1, a.lo + n - 2^24)

\* the w bits of n, most significant first, and the number of a bit string
Bits(n, w) == [j \in 1..w |-> (n \div 2^(w - j)) % 2]

RECURSIVE BitsValue(_)
BitsValue(b) ==
    IF Len(b) = 0 THEN 0 ELSE 2 * BitsValue(Take(b, Len(b) - 1)) + b[Len(b)]

(***************************************************************************)
(* typeid('reg') of typeid-js: a UUID version 7 from the generator of the  *)
(* process, its 16 bytes written as 26 characters of base 32.  The         *)
(* generator keeps the timestamp and the counter of the last id it made:   *)
(* a clock that has not moved forward, but is at most 10 seconds behind,   *)
(* yields the kept timestamp and the next counter; a clock further behind  *)
(* resets the generator.                                                   *)
(***************************************************************************)
MAX_COUNTER == Wide(2^18 - 1, 2^24 - 1)        \* 2^42 - 1

MAX_TIMESTAMP == Wide(2^24 - 1, 2^24 - 1)      \* 2^48 - 1

V7Generator(timestamp, counter, overflows) ==
    [timestamp |-> timestamp, counter |-> counter, overflows |-> overflows]

\* new V7Generator()
NewV7Generator == V7Generator(Wide(0, 0), Wide(0, 0), 0)

\* the random numbers one call draws: rand.counter the 42 bits of a reset
\* counter, rand.fill the bit that fills the last 32 bits of the id
Random(counter, fill) == [counter |-> counter, fill |-> fill]

\* this.counter++; if (this.counter > MAX_COUNTER) { this.timestamp++;
\* this.resetCounter(); }
CounterStep(g, rand) ==
    IF g.counter = MAX_COUNTER
    THEN V7Generator(WidePlus(g.timestamp, 1), rand.counter, g.overflows + 1)
    ELSE V7Generator(g.timestamp, WidePlus(g.counter, 1), g.overflows)

\* The state of the generator after generateOrResetCore(unixTsMs, 10000).
GeneratorStep(g, unixTsMs, rand) ==
    IF WideLess(g.timestamp, unixTsMs)
    THEN V7Generator(unixTsMs, rand.counter, g.overflows)
    ELSE IF ~WideLess(WidePlus(unixTsMs, 10000), g.timestamp)
    THEN CounterStep(g, rand)
    ELSE V7Generator(unixTsMs, rand.counter, g.overflows)

\* UUID.fromFieldsV7(timestamp, counter >> 30, counter & (2^30 - 1), random):
\* the 128 bits of the id, cb the 42 bits of the counter.
FieldsV7Bits(timestamp, cb, fill) ==
    Bits(timestamp.hi, 24) \o Bits(timestamp.lo, 24) \o <<0, 1, 1, 1>>
        \o SubSeq(cb, 1, 12) \o <<1, 0>> \o SubSeq(cb, 13, 42)
        \o [j \in 1..32 |-> fill]

BytesOfBits(b) == [i \in 1..(Len(b) \div 8) |-> BitsValue(SubSeq(b, 8 * i - 7, 8 * i))]

fromFieldsV7(g, rand) ==
    BytesOfBits(FieldsV7Bits(g.timestamp,
                             Bits(g.counter.hi, 18) \o Bits(g.counter.lo, 24),
                             rand.fill))

\* "0123456789abcdefghjkmnpqrstvwxyz"
Base32Chars ==
    <<48, 49, 50, 51, 52, 53, 54, 55, 56, 57, 97, 98, 99, 100, 101, 102,
      103, 104, 106, 107, 109, 110, 112, 113, 114, 115, 116, 118, 119, 120,
      121, 122>>

BitsOfBytes(bytes) ==
    [k \in 1..(8 * Len(bytes)) |-> Bits(bytes[(k - 1) \div 8 + 1], 8)[((k - 1) % 8) + 1]]

\* encode(bytes) of typeid-js: two zero bits and the 128 bits of the bytes,
\* five bits to a character.
Base32OfBits(b) ==
    [i \in 1..(Len(b) \div 5) |-> Base32Chars[BitsValue(SubSeq(b, 5 * i - 4, 5 * i)) + 1]]

Base32Encode(bytes) == Base32OfBits(<<0, 0>> \o BitsOfBytes(bytes))

Base32Value(c) == (CHOOSE i \in 1..32 : Base32Chars[i] = c) - 1

\* decode(suffix) of typeid-js: the 16 bytes of the 26 characters.
Base32Bits(suffix) ==
    [k \in 1..(5 * Len(suffix)) |->
        Bits(Base32Value(suffix[(k - 1) \div 5 + 1]), 5)[((k - 1) % 5) + 1]]

Base32Decode(suffix) == BytesOfBits(Drop(Base32Bits(suffix), 2))

\* "0123456789abcdef"
HexChar(n) == IF n < 10 THEN 48 + n ELSE 87 + n

HexOfBytes(bytes) ==
    [k \in 1..(2 * Len(bytes)) |->
        HexChar(IF k % 2 = 1 THEN bytes[(k + 1) \div 2] \div 16
                ELSE bytes[k \div 2] % 16)]

\* stringify(bytes) of typeid-js: 8-4-4-4-12 hexadecimal digits
UUIDStringify(hex) ==
    SubSeq(hex, 1, 8) \o <<45>> \o SubSeq(hex, 9, 12) \o <<45>>
        \o SubSeq(hex, 13, 16) \o <<45>> \o SubSeq(hex, 17, 20) \o <<45>>
        \o SubSeq(hex, 21, 32)

\* id.toUUID()
toUUID(id) == UUIDStringify(HexOfBytes(Base32Decode(id.suffix)))

\* s.replace(c, ''): s without the first c
ReplaceFirst(s, c) ==
    IF \A i \in 1..Len(s) : s[i] # c THEN s
    ELSE Take(s, (CHOOSE i \in 1..Len(s) :
                      s[i] = c /\ \A j \in 1..(i - 1) : s[j] # c) - 1)
         \o Drop(s, CHOOSE i \in 1..Len(s) :
                        s[i] = c /\ \A j \in 1..(i - 1) : s[j] # c)

IsHexDigit(c) == (c >= 48 /\ c <= 57) \/ (c >= 97 /\ c <= 102) \/ (c >= 65 /\ c <= 70)

HexDigitValue(c) == IF c <= 57 THEN c - 48 ELSE IF c >= 97 THEN c - 87 ELSE c - 55

RECURSIVE HexValue(_)
HexValue(s) ==
    IF Len(s) = 0 THEN 0
    ELSE 16 * HexValue(Take(s, Len(s) - 1)) + HexDigitValue(s[Len(s)])

\* the length of the longest prefix of s made of hexadecimal digits
HexPrefix(s) ==
    CHOOSE k \in 0..Len(s) :
        /\ \A i \in 1..k : IsHexDigit(s[i])
        /\ k < Len(s) => ~IsHexDigit(s[k + 1])

\* parseInt(s, 16), for up to 12 digits: [nan, val], val the number.
ParseIntDigits(digits) ==
    IF Len(digits) = 0 THEN [nan |-> TRUE, val |-> Wide(0, 0)]
    ELSE IF Len(digits) <= 6
    THEN [nan |-> FALSE, val |-> Wide(0, HexValue(digits))]
    ELSE [nan |-> FALSE,
          val |-> Wide(HexValue(Take(digits, Len(digits) - 6)),
                       HexValue(Drop(digits, Len(digits) - 6)))]

ParseIntHex(s) == ParseIntDigits(Take(s, HexPrefix(s)))

\* RegistrationId.create() when Date.now() is now: [ok, id, err, msg].  A
\* timestamp above 48 bits makes UUID.fromFieldsV7 throw.
RegistrationIdOfGenerator(g, rand) ==
    IF WideLess(MAX_TIMESTAMP, g.timestamp)
    THEN [ok |-> FALSE, id |-> NoTypeID, err |-> "RangeError",
          msg |-> "invalid field value"]
    ELSE [ok |-> TRUE, id |-> TypeID(STR_reg, Base32Encode(fromFieldsV7(g, rand))),
          err |-> "", msg |-> ""]

RegistrationIdCreate(g, now, rand) ==
    RegistrationIdOfGenerator(GeneratorStep(g, now, rand), rand)

\* extractTimestamp without the removal of the '-'.
extractTimestampWithDash(id) == ParseIntHex(Take(toUUID(id), 13))

\* id.extractTimestamp(): [nan, val]
extractTimestamp(id) == ParseIntHex(ReplaceFirst(Take(toUUID(id), 13), 45))

\* new Date(ms): the date, as its milliseconds since the epoch
Date(ms) == [time |-> ms.val, invalid |-> ms.nan]

\* id.extractDate()
extractDate(id) == Date(extractTimestamp(id))

(***************************************************************************)
(* DapRegistration: id a RegistrationId, handle, did, domain and signature *)
(* JavaScript values (signature undefined until the record is signed).     *)
(***************************************************************************)
DapRegistration(id, handle, did, domain, signature) ==
    [id |-> id, handle |-> handle, did |-> did, domain |-> domain,
     signature |-> signature]

\* computeDigest() with did left out of the digested fields.
computeDigestWithoutDid(r) ==
    digest(JsObject(<<Member(STR_id, JsString(IdToString(r.id))),
                      Member(STR_handle, r.handle),
                      Member(STR_domain, r.domain)>>))

\* computeDigest() with domain left out of the digested fields.
computeDigestWithoutDomain(r) ==
    digest(JsObject(<<Member(STR_id, JsString(IdToString(r.id))),
                      Member(STR_handle, r.handle),
                      Member(STR_did, r.did)>>))

\* computeDigest()
computeDigest(r) ==
    digest(JsObject(<<Member(STR_id, JsString(IdToString(r.id))),
                      Member(STR_handle, r.handle),
                      Member(STR_did, r.did),
                      Member(STR_domain, r.domain)>>))

\* DapRegistration.create({ handle, did, domain }), id the fresh typeid('reg')
create(id, handle, did, domain) ==
    DapRegistration(id, JsString(handle), JsString(did), JsString(domain),
                    JsUndefined)

\* sign(did): the record with the signature stored
sign(r, did) ==
    [r EXCEPT !.signature = JsString(CryptoSign(did, computeDigest(r), TRUE))]

\* The end of verify() without the comparison of the signer with did.
VerifySignerAny(r, signerDid) ==
    [signerDid EXCEPT !.calls = <<"computeDigest">> \o signerDid.calls]

\* The end of verify(): signerDid is the outcome of Crypto.verify.
VerifySigner(r, signerDid) ==
    IF ~signerDid.ok
    THEN [signerDid EXCEPT !.calls = <<"computeDigest">> \o signerDid.calls]
    ELSE IF r.did # signerDid.val
    THEN Thrown("InvalidDapRegistration",
                "Invalid DAP Registration: Expected registration to be signed by the specified DID",
                <<"computeDigest">> \o signerDid.calls)
    ELSE Returned(signerDid.val, <<"computeDigest">> \o signerDid.calls)

\* verify() without the test for a missing signature.
verifyEager(r) ==
    VerifySigner(r, CryptoVerify(r.signature, Detached(computeDigest(r))))

\* verify()
verify(r) ==
    IF r.signature = JsUndefined
    THEN Thrown("InvalidDapRegistration",
                "Invalid DAP Registration: Signature is missing", <<>>)
    ELSE VerifySigner(r, CryptoVerify(r.signature, Detached(computeDigest(r))))

\* toJSON() without the signature.
toJSONUnsigned(r) ==
    JsObject(<<Member(STR_id, JsString(IdToString(r.id))),
               Member(STR_handle, r.handle),
               Member(STR_did, r.did),
               Member(STR_domain, r.domain)>>)

\* toJSON()
toJSON(r) ==
    JsObject(<<Member(STR_id, JsString(IdToString(r.id))),
               Member(STR_handle, r.handle),
               Member(STR_did, r.did),
               Member(STR_domain, r.domain),
               Member(STR_signature, r.signature)>>)

\* JSON.stringify(registration), which serializes toJSON()
serialize(r) == JsonStringify(toJSON(r))

\* #rawToRegistrationRequest(rawRequest): [ok, val]
rawToRegistrationRequest(rawRequest) ==
    IF rawRequest.t = "string" THEN JsonParse(rawRequest.s)
    ELSE [ok |-> TRUE, val |-> rawRequest]

\* DapRegistration.parse(rawRequest): [res, rec], res the outcome and rec the
\* record returned (<<r>>), empty when parse throws.
ParseFailed(res) == [res |-> res, rec |-> <<>>]

\* parse() returning the record whatever verify() says.
ParseUnverified(registration, verified) ==
    [res |-> Returned(JsUndefined, verified.calls), rec |-> <<registration>>]

ParseVerified(registration, verified) ==
    IF ~verified.ok THEN ParseFailed(verified)
    ELSE [res |-> Returned(JsUndefined, verified.calls), rec |-> <<registration>>]

ParseVerify(registration) == ParseVerified(registration, verify(registration))

ParseFields(json, id) ==
    IF ~id.ok THEN ParseFailed(Thrown(id.err, id.msg, <<>>))
    ELSE ParseVerify(DapRegistration(id.id, Get(json, STR_handle),
                                     Get(json, STR_did), Get(json, STR_domain),
                                     Get(json, STR_signature)))

ParseRequest(jsonRegistration) ==
    IF ~jsonRegistration.ok
    THEN ParseFailed(Thrown("InvalidDapRegistration",
                            "Failed to parse DAP registration: SyntaxError", <<>>))
    ELSE IF Throws(jsonRegistration.val)
    THEN ParseFailed(Thrown("TypeError", "Cannot read properties of null", <<>>))
    ELSE ParseFields(jsonRegistration.val,
                     RegistrationIdParse(Get(jsonRegistration.val, STR_id)))

parse(rawRequest) == ParseRequest(rawToRegistrationRequest(rawRequest))

(***************************************************************************)
(* The state.  reg is the record a caller holds; signedAs remembers the    *)
(* last sign() of it: the BearerDid used and the record as it was when     *)
(* signed.  held is the compact JWS a caller of Crypto.sign holds, with    *)
(* the arguments that made it.  out is the outcome of the last call: op    *)
(* the operation, raw and payload its inputs (the input of parse; the jws  *)
(* and detachedPayload of Crypto.verify), res the outcome, rec the record  *)
(* parse returned.                                                         *)
(***************************************************************************)
NumHandles == 2

\* "h1", "h2", ...
Handles == {<<104, 48 + i>> : i \in 1..NumHandles}

\* "d1.io", "d2.io"
Domains == {<<100, 49, 46, 105, 111>>, <<100, 50, 46, 105, 111>>}

Dids == {DID_A, DID_B}

\* typeid('reg'): "reg" with a fresh suffix.
Ids == {TypeID(STR_reg, <<48, 49, 104, 52, 53, 53, 118, 98, 52, 112, 101, 120, 53, 118, 115, 107, 110, 107, 48, 56, 52, 115, 110, 48, 50, 113>>),
        TypeID(STR_reg, <<48, 49, 104, 52, 53, 53, 118, 98, 52, 112, 101, 120, 53, 118, 115, 107, 110, 107, 48, 56, 52, 115, 110, 48, 50, 114>>)}

Outcome(op, raw, payload, res, rec) ==
    [op |-> op, raw |-> raw, payload |-> payload, res |-> res, rec |-> rec]

Done(op) == Outcome(op, JsUndefined, NoPayload, Returned(JsUndefined, <<>>), <<>>)

NoJws == <<>>

Init ==
    /\ \E id \in Ids, handle \in Handles, did \in Dids, domain \in Domains :
           reg = create(id, handle, did, domain)
    /\ signedAs = <<>>
    /\ held = NoJws
    /\ out = Done("create")
    /\ gen = NewV7Generator

\* registration = DapRegistration.create({ handle, did, domain })
Create(id, handle, did, domain) ==
    /\ reg' = create(id, handle, did, domain)
    /\ signedAs' = <<>>
    /\ out' = Done("create")
    /\ UNCHANGED <<held, gen>>

\* await registration.sign(did)
Sign(did) ==
    /\ reg' = sign(reg, did)
    /\ signedAs' = <<[signer |-> did, rec |-> reg']>>
    /\ out' = Done("sign")
    /\ UNCHANGED <<held, gen>>

\* registration.id = ..., registration.handle = ..., and so on: the fields
\* are public and mutable.
AssignId(id) ==
    /\ id # reg.id
    /\ reg' = [reg EXCEPT !.id = id]
    /\ out' = Done("assign")
    /\ UNCHANGED <<signedAs, held, gen>>

AssignHandle(handle) ==
    /\ JsString(handle) # reg.handle
    /\ reg' = [reg EXCEPT !.handle = JsString(handle)]
    /\ out' = Done("assign")
    /\ UNCHANGED <<signedAs, held, gen>>

AssignDid(did) ==
    /\ JsString(did) # reg.did
    /\ reg' = [reg EXCEPT !.did = JsString(did)]
    /\ out' = Done("assign")
    /\ UNCHANGED <<signedAs, held, gen>>

AssignDomain(domain) ==
    /\ JsString(domain) # reg.domain
    /\ reg' = [reg EXCEPT !.domain = JsString(domain)]
    /\ out' = Done("assign")
    /\ UNCHANGED <<signedAs, held, gen>>

\* await registration.verify()
Verify ==
    /\ out' = Outcome("verify", JsUndefined, NoPayload, verify(reg), <<>>)
    /\ UNCHANGED <<reg, signedAs, held, gen>>

(***************************************************************************)
(* The inputs of DapRegistration.parse: the serialization of the record    *)
(* held (whatever its state: unsigned, signed, changed after signing), its *)
(* pre-decoded shape, and malformed inputs.                                *)
(***************************************************************************)
WithId(r, idString) ==
    JsObject(Put(toJSON(r).m, STR_id, JsString(idString)))

RawInputs(r) ==
    { JsString(serialize(r)),
      toJSON(r),
      JsString(<<123, 34, 105, 100, 34, 58>>),                                   \* not JSON
      JsString(<<110, 117, 108, 108>>),
      JsObject(Put(toJSON(r).m, STR_signature, JsNumber(<<50>>))),
      WithId(r, <<114, 101, 103, 95, 49, 50, 51, 52, 53, 54, 55, 56, 57, 48, 97, 98, 99, 100, 101, 102>>),                    \* wrong length
      WithId(r, r.id.suffix),                               \* no prefix
      JsString(JsonStringify(WithId(r, <<117, 115, 101, 114, 95>> \o r.id.suffix))) }

ParseOutcome(raw, parsed) ==
    Outcome("parse", raw, NoPayload, parsed.res, parsed.rec)

\* await DapRegistration.parse(raw)
Parse(raw) ==
    /\ out' = ParseOutcome(raw, parse(raw))
    /\ UNCHANGED <<reg, signedAs, held, gen>>

Next ==
    \/ \E id \in Ids, handle \in Handles, did \in Dids, domain \in Domains :
           Create(id, handle, did, domain)
    \/ \E did \in Signers : Sign(did)
    \/ \E id \in Ids : AssignId(id)
    \/ \E handle \in Handles : AssignHandle(handle)
    \/ \E did \in Dids : AssignDid(did)
    \/ \E domain \in Domains : AssignDomain(domain)
    \/ Verify
    \/ \E raw \in RawInputs(reg) : Parse(raw)

Spec == Init /\ [][Next]_vars

(***************************************************************************)
(* Direct calls of Crypto.sign and Crypto.verify.  The payloads are byte   *)
(* arrays of 0 to NumPayloads - 1 bytes; the JWS given to Crypto.verify is *)
(* the one Crypto.sign returned or one of JwsInputs.                       *)
(***************************************************************************)
NumPayloads == 3

\* <<>>, <<255>>, <<255, 254>>, ...
Payloads == {[i \in 1..n |-> 256 - i] : n \in 0..(NumPayloads - 1)}

DetachedPayloads == {NoPayload} \cup {Detached(p) : p \in Payloads}

\* header '.' payload '.' signature
Compact(header, payload, signature) ==
    header \o <<DOT>> \o payload \o <<DOT>> \o signature

\* The base64url of a header's JSON text.
HeaderOf(text) == toBase64Url(Utf8Encode(text))

HEADER_ALICE == HeaderOf(JsonStringify(JwsHeader(Alice)))

JwsInputs ==
    { JsNumber(<<50>>),
      JsString(<<111, 110, 101, 46>>),
      JsString(<<46, 111, 110, 101>>),
      JsString(<<111, 110, 101, 46, 116, 119, 111>>),
      JsString(<<111, 110, 101, 46, 116, 119, 111, 46, 116, 104, 114, 101, 101, 46, 102, 111, 117, 114>>),
      JsString(<<111, 110, 101, 46, 116, 119, 111, 46, 116, 104, 114, 101, 101>>),
      \* { alg: 'ES256K', kid: 'did:example:123#0' }, payload AQID
      JsString(<<101, 121, 74, 104, 98, 71, 99, 105, 79, 105, 74, 70, 85, 122, 73, 49, 78, 107, 115, 105, 76, 67, 74, 114, 97, 87, 81, 105, 79, 105, 74, 107, 97, 87, 81, 54, 90, 88, 104, 104, 98, 88, 66, 115, 90, 84, 111, 120, 77, 106, 77, 106, 77, 67, 74, 57, 46, 65, 81, 73, 68, 46>>),
      \* { kid: 'did:example:123#0' }
      JsString(<<101, 121, 74, 114, 97, 87, 81, 105, 79, 105, 74, 107, 97, 87, 81, 54, 90, 88, 104, 104, 98, 88, 66, 115, 90, 84, 111, 120, 77, 106, 77, 106, 77, 67, 74, 57, 46, 46>>),
      \* { alg: 'ES256K' }
      JsString(<<101, 121, 74, 104, 98, 71, 99, 105, 79, 105, 74, 70, 85, 122, 73, 49, 78, 107, 115, 105, 102, 81, 46, 46>>),
      JsString(<<101, 121, 74, 104, 98, 71, 99, 105, 79, 105, 74, 70, 85, 122, 73, 49, 78, 107, 115, 105, 76, 67, 74, 114, 97, 87, 81, 105, 79, 105, 74, 107, 97, 87, 81, 54, 90, 88, 104, 104, 98, 88, 66, 115, 90, 84, 111, 120, 77, 106, 77, 106, 77, 67, 74, 57, 46, 46>>),
      JsString(Compact(HeaderOf(<<110, 117, 108, 108>>), <<>>, <<>>)),
      JsString(Compact(HeaderOf(<<123, 125>>), <<>>, <<>>)),
      JsString(Compact(HeaderOf(<<123, 34, 97, 108, 103, 34, 58, 49, 44, 34, 107, 105, 100, 34, 58, 34, 100, 105, 100, 58, 101, 120, 58, 97, 35, 48, 34, 125>>), <<>>, <<>>)),
      JsString(Compact(HeaderOf(<<123, 34, 97, 108, 103, 34, 58, 34, 34, 44, 34, 107, 105, 100, 34, 58, 34, 100, 105, 100, 58, 101, 120, 58, 97, 35, 48, 34, 125>>), <<>>, <<>>)),
      JsString(Compact(HeaderOf(<<123, 34, 97, 108, 103, 34, 58, 34, 69, 100, 68, 83, 65, 34, 44, 34, 107, 105, 100, 34, 58, 55, 125>>), <<>>, <<>>)),
      \* a verification method without publicKeyJwk, a service, a document
      JsString(Compact(HeaderOf(<<123, 34, 97, 108, 103, 34, 58, 34, 69, 100, 68, 83, 65, 34, 44, 34, 107, 105, 100, 34, 58, 34, 100, 105, 100, 58, 101, 120, 58, 99, 35, 48, 34, 125>>), <<>>, <<>>)),
      JsString(Compact(HeaderOf(<<123, 34, 97, 108, 103, 34, 58, 34, 69, 100, 68, 83, 65, 34, 44, 34, 107, 105, 100, 34, 58, 34, 100, 105, 100, 58, 101, 120, 58, 97, 35, 115, 34, 125>>), <<>>, <<>>)),
      JsString(Compact(HeaderOf(<<123, 34, 97, 108, 103, 34, 58, 34, 69, 100, 68, 83, 65, 34, 44, 34, 107, 105, 100, 34, 58, 34, 100, 105, 100, 58, 101, 120, 58, 97, 34, 125>>), <<>>, <<>>)),
      \* Alice's header with a signature that is not hers, and with one that
      \* is not base64url
      JsString(Compact(HEADER_ALICE, <<>>, <<65, 65, 65, 65>>)),
      JsString(Compact(HEADER_ALICE, <<65, 81, 73, 68>>, <<65, 65, 65, 65>>)),
      JsString(Compact(HEADER_ALICE, <<>>, <<33, 33>>)) }

InitJws ==
    /\ reg = create(CHOOSE id \in Ids : TRUE, CHOOSE h \in Handles : TRUE,
                    DID_A, CHOOSE d \in Domains : TRUE)
    /\ signedAs = <<>>
    /\ held = NoJws
    /\ out = Done("create")
    /\ gen = NewV7Generator

HeldJws(did, payload, detached, jws) ==
    <<[did |-> did, payload |-> payload, detached |-> detached, jws |-> jws]>>

SignOutcome(jws) ==
    Outcome("Crypto.sign", JsUndefined, NoPayload, Returned(jws, <<>>), <<>>)

\* jws = await Crypto.sign({ did, payload, detached })
CryptoSignCall(did, payload, detached) ==
    /\ held' = HeldJws(did, payload, detached, CryptoSign(did, payload, detached))
    /\ out' = SignOutcome(JsString(held'[1].jws))
    /\ UNCHANGED <<reg, signedAs, gen>>

VerifyOutcome(jws, detachedPayload) ==
    Outcome("Crypto.verify", jws, detachedPayload,
            CryptoVerify(jws, detachedPayload), <<>>)

\* await Crypto.verify({ jws, detachedPayload }) of the JWS held
CryptoVerifyHeld(detachedPayload) ==
    /\ held # NoJws
    /\ out' = VerifyOutcome(JsString(held[1].jws), detachedPayload)
    /\ UNCHANGED <<reg, signedAs, held, gen>>

\* await Crypto.verify({ jws, detachedPayload }) of any other input
CryptoVerifyInput(jws, detachedPayload) ==
    /\ out' = VerifyOutcome(jws, detachedPayload)
    /\ UNCHANGED <<reg, signedAs, held, gen>>

NextJws ==
    \/ \E did \in Signers, payload \in Payloads, detached \in BOOLEAN :
           CryptoSignCall(did, payload, detached)
    \/ \E detachedPayload \in DetachedPayloads : CryptoVerifyHeld(detachedPayload)
    \/ \E jws \in JwsInputs, detachedPayload \in DetachedPayloads :
           CryptoVerifyInput(jws, detachedPayload)

SpecJws == InitJws /\ [][NextJws]_vars

(***************************************************************************)
(* Properties of DapRegistration, over Spec.                               *)
(***************************************************************************)

\* The signer's key id dereferences to the public key of its private key.
Resolves(s) == dereference(s.keyId) = DerefVM(s.key)

\* The stored signature is the detached JWS signer s makes over the digest
\* of the record's current id, handle, did and domain.
SignedOver(r, s) == r.signature = JsString(CryptoSign(s, computeDigest(r), TRUE))

ValidSigners(r) == {s \in Signers : Resolves(s) /\ SignedOver(r, s)}

\* The record was signed by a signer whose DID was its did, and did has
\* been changed since.
DidTampered ==
    /\ signedAs # <<>>
    /\ signedAs[1].rec.did = JsString(signedAs[1].signer.uri)
    /\ reg.signature = signedAs[1].rec.signature
    /\ reg.did # signedAs[1].rec.did

\* C1, as stated: verify() of a record whose did was changed after it was
\* signed by the DID it named fails with InvalidDapRegistration.
C1_TamperedDidIsInvalidDapRegistration ==
    (out.op = "verify" /\ DidTampered)
        => (~out.res.ok /\ out.res.err = "InvalidDapRegistration")

\* C1, amended: verify() of a record whose did was changed after it was
\* signed by the DID it named fails, and never with InvalidDapRegistration:
\* the error is the one Crypto.verify throws, which is InvalidJws
\* "Integrity mismatch" when the signer's key id resolves to a public key.
C1_TamperedDidFailsInCryptoVerify ==
    (out.op = "verify" /\ DidTampered)
        => /\ ~out.res.ok
           /\ out.res.err # "InvalidDapRegistration"
           /\ isPublicJwk(dereference(signedAs[1].signer.keyId)) =>
                  /\ out.res.err = "InvalidJws"
                  /\ out.res.msg = "Signature verification failed: Integrity mismatch"

C1_Witness ==
    /\ out.op = "verify"
    /\ DidTampered
    /\ Resolves(signedAs[1].signer)
    /\ reg = [signedAs[1].rec EXCEPT !.did = reg.did]
    /\ out.res.err = "InvalidJws"

\* The record every field of which is read from the parsed input.
ParsedFrom(r, json) ==
    /\ json.ok
    /\ toJSON(r) = JsObject(<<Member(STR_id, Get(json.val, STR_id)),
                              Member(STR_handle, Get(json.val, STR_handle)),
                              Member(STR_did, Get(json.val, STR_did)),
                              Member(STR_domain, Get(json.val, STR_domain)),
                              Member(STR_signature, Get(json.val, STR_signature))>>)

\* C2: parse(raw) returns a record only if the record, read from raw,
\* carries a detached signature over the digest of its own id, handle, did
\* and domain made by a resolvable signer whose DID is its did; otherwise
\* parse throws and returns no record.
C2_ParseReturnsOnlyVerifiedRecords ==
    out.op = "parse"
        => /\ out.res.ok <=> out.rec # <<>>
           /\ out.rec # <<>> =>
                  /\ ParsedFrom(out.rec[1], rawToRegistrationRequest(out.raw))
                  /\ \E s \in ValidSigners(out.rec[1]) :
                         out.rec[1].did = JsString(s.uri)

C2_Witness ==
    /\ out.op = "parse"
    /\ out.raw.t = "string"
    /\ out.res.ok
    /\ out.rec # <<>>

\* The record is as it was when signed, by a signer whose DID is its did and
\* whose key resolves.
ValidlySigned ==
    /\ signedAs # <<>>
    /\ signedAs[1].rec = reg
    /\ reg.did = JsString(signedAs[1].signer.uri)
    /\ Resolves(signedAs[1].signer)

\* The keys of a JSON text's object, in order.
KeysOf(json) == [i \in 1..Len(json.val.m) |-> json.val.m[i].k]

\* C3: parsing the serialization of a record signed by a resolvable signer
\* whose DID is its did succeeds, and the parsed record serializes to the
\* same text, its fields in the order id, handle, did, domain, signature.
C3_ParseSerializeRoundTrip ==
    (out.op = "parse" /\ ValidlySigned /\ out.raw = JsString(serialize(reg)))
        => /\ out.res.ok
           /\ out.rec # <<>>
           /\ serialize(out.rec[1]) = out.raw.s
           /\ KeysOf(JsonParse(serialize(out.rec[1])))
                  = <<STR_id, STR_handle, STR_did, STR_domain, STR_signature>>

C3_Witness ==
    /\ out.op = "parse"
    /\ ValidlySigned
    /\ out.raw = JsString(serialize(reg))
    /\ out.res.ok

\* C4: verify() of a record without a signature throws
\* InvalidDapRegistration "Signature is missing" before the digest is
\* computed, a key resolved or a signature checked.
C4_UnsignedVerifyFailsFirst ==
    (out.op = "verify" /\ reg.signature = JsUndefined)
        => /\ ~out.res.ok
           /\ out.res.err = "InvalidDapRegistration"
           /\ out.res.msg = "Invalid DAP Registration: Signature is missing"
           /\ out.res.calls = <<>>

C4_Witness ==
    /\ out.op = "verify"
    /\ reg.signature = JsUndefined
    /\ ~out.res.ok

\* id, handle or domain has been changed since the record was signed.
ContentChanged ==
    /\ signedAs # <<>>
    /\ reg.signature = signedAs[1].rec.signature
    /\ <<reg.id, reg.handle, reg.domain>>
           # <<signedAs[1].rec.id, signedAs[1].rec.handle, signedAs[1].rec.domain>>

\* C9: verify() returns only if the stored signature is a valid detached
\* signature over the digest of the record's current id, handle, did and
\* domain; once id, handle or domain differs from what was signed, verify()
\* fails.
C9_SignatureCoversCurrentContent ==
    out.op = "verify"
        => /\ out.res.ok => ValidSigners(reg) # {}
           /\ ContentChanged => ~out.res.ok

C9_Witness ==
    /\ out.op = "verify"
    /\ ContentChanged
    /\ Resolves(signedAs[1].signer)
    /\ reg.did = JsString(signedAs[1].signer.uri)
    /\ ~out.res.ok

\* C10: when the stored signature is a valid detached signature over the
\* record's current digest, verify() returns the signer's DID if it is the
\* record's did, and otherwise throws InvalidDapRegistration "Expected
\* registration to be signed by the specified DID".
C10_SignerMustBeTheRecordsDid ==
    out.op = "verify"
        => \A s \in ValidSigners(reg) :
               IF reg.did = JsString(s.uri)
               THEN out.res.ok /\ out.res.val = reg.did
               ELSE /\ ~out.res.ok
                    /\ out.res.err = "InvalidDapRegistration"
                    /\ out.res.msg = "Invalid DAP Registration: Expected registration to be signed by the specified DID"

C10_Witness ==
    /\ out.op = "verify"
    /\ \E s \in ValidSigners(reg) : reg.did # JsString(s.uri)
    /\ out.res.err = "InvalidDapRegistration"

(***************************************************************************)
(* Properties of Crypto, over SpecJws.                                     *)
(***************************************************************************)

\* The value has a non-empty string under the key.
HasString(v, key) ==
    /\ v.t = "object"
    /\ Get(v, key).t = "string"
    /\ Get(v, key).s # <<>>

\* The content is a verification method with usable public key material.
UsableKey(content) ==
    content.kind = "verificationMethod" /\ content.hasJwk

\* The third segment is the signature of header '.' payload under the key.
SignatureMatches(parts, payloadBase64Url, key) ==
    /\ fromBase64Url(parts[3]).ok
    /\ fromBase64Url(parts[3]).bytes
           = SignerSign(key, Utf8Encode(parts[1] \o <<DOT>> \o payloadBase64Url))

\* The first of the eight checks, in the order given, that the input fails:
\* 0 when it fails none.
FailingKeyCheck(parts, payloadBase64Url, kid) ==
    IF ~UsableKey(dereference(kid)) THEN 7
    ELSE IF ~SignatureMatches(parts, payloadBase64Url, dereference(kid).key) THEN 8
    ELSE 0

FailingHeaderCheck(parts, payloadBase64Url, header) ==
    IF ~header.ok THEN 4
    ELSE IF ~HasString(header.val, STR_alg) THEN 5
    ELSE IF ~HasString(header.val, STR_kid) THEN 6
    ELSE FailingKeyCheck(parts, payloadBase64Url, Get(header.val, STR_kid).s)

FailingPartsCheck(parts, detachedPayload) ==
    IF Len(parts) # 3 THEN 2
    ELSE IF detachedPayload.given /\ parts[2] # <<>> THEN 3
    ELSE FailingHeaderCheck(parts,
                            IF detachedPayload.given
                            THEN toBase64Url(detachedPayload.bytes)
                            ELSE parts[2],
                            toObject(parts[1]))

FirstFailingCheck(jws, detachedPayload) ==
    IF jws.t # "string" THEN 1
    ELSE FailingPartsCheck(Split(jws.s, DOT), detachedPayload)

\* The cause each check reports.
CauseOf ==
    <<"Signature verification failed: Expected Compact JWS in string format",
      "Signature verification failed: Expected Compact JWS with 3 parts",
      "Signature verification failed: Expected detached JWS with empty payload",
      "Signature verification failed: Invalid JWS header",
      "Signature verification failed: Missing or invalid algorithm (\"alg\") in JWS header",
      "Signature verification failed: Missing or invalid key ID (\"kid\") in JWS header",
      "Signature verification failed: Expected key id (\"kid\") in JWS header to dereference to a DID Document Verification Method",
      "Signature verification failed: Integrity mismatch">>

\* The external calls made when check n is the first to fail.
CallsBefore(n) ==
    IF n \in 1..6 THEN <<>>
    ELSE IF n = 7 THEN <<"dereference">>
    ELSE <<"dereference", "verify">>

ReportsCheck(res, n) ==
    IF n = 0 THEN res.ok
    ELSE /\ ~res.ok
         /\ res.err = "InvalidJws"
         /\ res.msg = CauseOf[n]
         /\ res.calls = CallsBefore(n)

\* C5: Crypto.verify reports, as InvalidJws with the check's own cause, the
\* first check that fails in the order non-string input, segment count,
\* non-empty middle segment on a detached call, undecodable header, alg,
\* kid, kid not resolving to a usable verification method, signature
\* mismatch; and makes no later step once a check has failed.
C5_FirstFailingCheckIsReported ==
    out.op = "Crypto.verify"
        => ReportsCheck(out.res, FirstFailingCheck(out.raw, out.payload))

\* The input passes every check before the resolution of kid.
ReachesKey(jws, detachedPayload) ==
    FirstFailingCheck(jws, detachedPayload) \in {0, 7, 8}

KidOf(jws) == Get(toObject(Split(jws.s, DOT)[1]).val, STR_kid).s

\* C6: when the header's kid does not dereference to a verification method
\* with a public key JWK, Crypto.verify throws InvalidJws.
C6_UnusableKeyIsInvalidJws ==
    (/\ out.op = "Crypto.verify"
     /\ ReachesKey(out.raw, out.payload)
     /\ ~UsableKey(dereference(KidOf(out.raw))))
        => (~out.res.ok /\ out.res.err = "InvalidJws")

\* The part of kid before the first '#'.
BeforeFragment(kid) ==
    IF \E i \in 1..Len(kid) : kid[i] = HASH
    THEN Take(kid, (CHOOSE i \in 1..Len(kid) :
                        /\ kid[i] = HASH
                        /\ \A j \in 1..(i - 1) : kid[j] # HASH) - 1)
    ELSE kid

\* Crypto.verify was given the JWS held the way it was made: without a
\* detached payload when it carries its payload, with the payload signed
\* when it is detached.
VerifiedAsSigned ==
    /\ held # NoJws
    /\ out.op = "Crypto.verify"
    /\ out.raw = JsString(held[1].jws)
    /\ out.payload = IF held[1].detached THEN Detached(held[1].payload)
                     ELSE NoPayload

\* C7: for a signer whose key id resolves to its public key, Crypto.verify
\* of what Crypto.sign returned, given the way it was made, returns the
\* signer's DID: the part of the key id before the first '#'.
C7_VerifyOfSignReturnsSignerDid ==
    (VerifiedAsSigned /\ Resolves(held[1].did))
        => /\ out.res.ok
           /\ out.res.val = JsString(BeforeFragment(held[1].did.keyId))
           /\ out.res.val = JsString(held[1].did.uri)

C7_Witness ==
    /\ VerifiedAsSigned
    /\ Resolves(held[1].did)
    /\ held[1].detached
    /\ held[1].payload # <<>>
    /\ out.res.ok

\* The three segments Crypto.sign is to return for the payload's encoding.
SegmentsAsSpecified(h, parts, payloadBase64Url) ==
    /\ Len(parts) = 3
    /\ fromBase64Url(parts[1]).ok
    /\ fromBase64Url(parts[1]).bytes = Utf8Encode(JsonStringify(JwsHeader(h.did)))
    /\ toObject(parts[1]).val
           = JsObject(<<Member(STR_alg, JsString(h.did.algorithm)),
                        Member(STR_kid, JsString(h.did.keyId))>>)
    /\ parts[2] = IF h.detached THEN <<>> ELSE payloadBase64Url
    /\ SignatureMatches(parts, payloadBase64Url, h.did.key)

\* C8: what Crypto.sign returns splits on '.' into three segments: the
\* base64url of the header {alg, kid} of the signer, the payload's
\* base64url or nothing when detached, and the base64url of the signer's
\* signature over header '.' payload in both modes.
C8_SignReturnsThreeSegments ==
    (held # NoJws /\ out.op = "Crypto.sign")
        => /\ out.res.val = JsString(held[1].jws)
           /\ SegmentsAsSpecified(held[1], Split(held[1].jws, DOT),
                                  toBase64Url(held[1].payload))

C8_Witness ==
    /\ held # NoJws
    /\ out.op = "Crypto.sign"
    /\ held[1].detached
    /\ held[1].payload # <<>>
    /\ Split(held[1].jws, DOT)[2] = <<>>

(***************************************************************************)
(* Calls of Crypto.digest.  A caller digests a payload and keeps the       *)
(* result (held) to compare it with the digest of the next payload, as the *)
(* digest tests do.  The payloads are objects of numbers, strings, null,   *)
(* nested objects and arrays, several of them equal up to the order of     *)
(* their keys.                                                             *)
(***************************************************************************)
KEY_a == <<97>>
KEY_b == <<98>>
KEY_c == <<99>>
KEY_d == <<100>>
NUM_1 == JsNumber(<<49>>)
NUM_2 == JsNumber(<<50>>)

Obj1(k, v) == JsObject(<<Member(k, v)>>)
Obj2(k1, v1, k2, v2) == JsObject(<<Member(k1, v1), Member(k2, v2)>>)

DigestPayloads ==
    { Obj2(KEY_a, NUM_1, KEY_b, NUM_2),                     \* { a: 1, b: 2 }
      Obj2(KEY_b, NUM_2, KEY_a, NUM_1),                     \* { b: 2, a: 1 }
      Obj2(KEY_a, NUM_2, KEY_b, NUM_1),
      Obj1(KEY_a, NUM_1),
      Obj1(KEY_a, NUM_2),
      Obj1(KEY_a, JsString(<<49>>)),                        \* { a: '1' }
      Obj1(KEY_a, JsNull),
      Obj1(<<104, 101, 108, 108, 111>>,
           JsString(<<119, 111, 114, 108, 100>>)),          \* { hello: 'world' }
      \* nested objects
      Obj1(KEY_a, Obj2(KEY_c, NUM_1, KEY_d, NUM_2)),
      Obj1(KEY_a, Obj2(KEY_d, NUM_2, KEY_c, NUM_1)),
      Obj1(KEY_a, Obj2(KEY_c, NUM_2, KEY_d, NUM_1)),
      Obj2(KEY_a, Obj2(KEY_c, NUM_1, KEY_d, NUM_2), KEY_b, NUM_1),
      Obj2(KEY_b, NUM_1, KEY_a, Obj2(KEY_d, NUM_2, KEY_c, NUM_1)),
      Obj1(KEY_a, Obj1(KEY_b, Obj2(KEY_c, NUM_1, KEY_d, NUM_2))),
      Obj1(KEY_a, Obj1(KEY_b, Obj2(KEY_d, NUM_2, KEY_c, NUM_1))),
      \* arrays
      Obj1(KEY_a, JsArray(<<NUM_1, NUM_2>>)),
      Obj1(KEY_a, JsArray(<<NUM_2, NUM_1>>)),
      Obj1(KEY_a, JsArray(<<NUM_1>>)),
      Obj2(KEY_a, JsArray(<<NUM_1, NUM_2>>), KEY_b, JsArray(<<>>)),
      Obj2(KEY_b, JsArray(<<>>), KEY_a, JsArray(<<NUM_1, NUM_2>>)),
      \* objects in arrays
      Obj1(KEY_a, JsArray(<<Obj2(KEY_c, NUM_1, KEY_d, NUM_2)>>)),
      Obj1(KEY_a, JsArray(<<Obj2(KEY_d, NUM_2, KEY_c, NUM_1)>>)),
      Obj1(KEY_a, JsArray(<<Obj2(KEY_c, NUM_1, KEY_d, NUM_2), NUM_1>>)),
      Obj1(KEY_a, JsArray(<<NUM_1, Obj2(KEY_c, NUM_1, KEY_d, NUM_2)>>)) }

InitDigest ==
    /\ reg = create(CHOOSE id \in Ids : TRUE, CHOOSE h \in Handles : TRUE,
                    DID_A, CHOOSE d \in Domains : TRUE)
    /\ signedAs = <<>>
    /\ held = <<>>
    /\ out = Done("create")
    /\ gen = NewV7Generator

DigestOutcome(payload) ==
    Outcome("Crypto.digest", payload, NoPayload,
            Returned(JsBytes(digest(payload)), <<>>), <<>>)

\* The earlier result the caller keeps.
HeldDigest(o) ==
    IF o.op = "Crypto.digest"
    THEN <<[payload |-> o.raw, digest |-> o.res.val]>>
    ELSE <<>>

\* result = await Crypto.digest(payload)
CryptoDigestCall(payload) ==
    /\ held' = HeldDigest(out)
    /\ out' = DigestOutcome(payload)
    /\ UNCHANGED <<reg, signedAs, gen>>

NextDigest == \E payload \in DigestPayloads : CryptoDigestCall(payload)

SpecDigest == InitDigest /\ [][NextDigest]_vars

(***************************************************************************)
(* Properties of Crypto.digest, over SpecDigest.                           *)
(***************************************************************************)

\* The keys of an object's members.
KeySet(m) == {m[i].k : i \in 1..Len(m)}

\* Structural equality up to the order of object keys, at every level:
\* scalars are equal, arrays have equal elements in the same order, objects
\* have the same keys with equal values.
RECURSIVE EqualUpToKeyOrder(_, _)
EqualUpToKeyOrder(p, q) ==
    IF p.t # q.t THEN FALSE
    ELSE IF p.t = "object"
    THEN /\ Len(p.m) = Len(q.m)
         /\ KeySet(p.m) = KeySet(q.m)
         /\ \A k \in KeySet(p.m) : EqualUpToKeyOrder(Get(p, k), Get(q, k))
    ELSE IF p.t = "array"
    THEN /\ Len(p.m) = Len(q.m)
         /\ \A i \in 1..Len(p.m) : EqualUpToKeyOrder(p.m[i].v, q.m[i].v)
    ELSE p = q

\* An array somewhere in the value holds an object.
RECURSIVE HasObjectInArray(_)
HasObjectInArray(v) ==
    \/ v.t = "array" /\ \E i \in 1..Len(v.m) : v.m[i].v.t \in {"object", "array"}
    \/ v.t \in {"object", "array"} /\ \E i \in 1..Len(v.m) : HasObjectInArray(v.m[i].v)

\* C11: payloads that are equal up to the order of object keys, at every
\* nesting level, have identical digests; payloads that differ in a value
\* or in the order of an array's elements canonicalize to different bytes.
C11_DigestIgnoresKeyOrder ==
    (out.op = "Crypto.digest" /\ held # <<>>)
        => IF EqualUpToKeyOrder(held[1].payload, out.raw)
           THEN held[1].digest = out.res.val
           ELSE canonicalize(held[1].payload) # canonicalize(out.raw)

\* The same for payloads none of whose arrays holds an object.
C11_DigestIgnoresKeyOrderOutsideArrays ==
    (/\ out.op = "Crypto.digest"
     /\ held # <<>>
     /\ ~HasObjectInArray(held[1].payload)
     /\ ~HasObjectInArray(out.raw))
        => IF EqualUpToKeyOrder(held[1].payload, out.raw)
           THEN held[1].digest = out.res.val
           ELSE canonicalize(held[1].payload) # canonicalize(out.raw)

(***************************************************************************)
(* Regular expressions.  A pattern is matched the way the engine matches   *)
(* it: a quantified character class may end at any position up to the      *)
(* first character outside the class, the engine prefers the longest run   *)
(* and backs off until the rest of the pattern matches; '.' matches any    *)
(* character but a line terminator; '$' (no m flag) matches at the end of  *)
(* the input only.                                                         *)
(***************************************************************************)
LineTerminators == {10, 13, 8232, 8233}

\* The positions at which a run [^excluded]+ that starts at i may end.
ClassPlusEnds(s, i, excluded) ==
    {j \in i..Len(s) : \A k \in i..j : s[k] \notin excluded}

MaxOf(S) == CHOOSE x \in S : \A y \in S : y <= x

NoMatch == [ok |-> FALSE, groups |-> <<>>]

\* The match whose first group ends at j: the groups are s[from..j] and
\* what follows the separator.
MatchAt(s, from, j) ==
    [ok |-> TRUE, groups |-> <<SubSeq(s, from, j), SubSeq(s, j + 2, Len(s))>>]

FirstMatch(s, from, ends) ==
    IF ends = {} THEN NoMatch ELSE MatchAt(s, from, MaxOf(ends))

(***************************************************************************)
(* Urn                                                                     *)
(***************************************************************************)
Urn_PREFIX == <<117, 114, 110, 58>>
Urn_SEPARATOR == 58

\* The ends when the first group is (.+): it may hold the separator.
UrnLoosePatternEnds(s) ==
    IF Len(s) < Len(Urn_PREFIX) \/ SubSeq(s, 1, Len(Urn_PREFIX)) # Urn_PREFIX
    THEN {}
    ELSE {j \in ClassPlusEnds(s, Len(Urn_PREFIX) + 1, LineTerminators) :
              /\ j < Len(s)
              /\ s[j + 1] = Urn_SEPARATOR
              /\ Len(s) \in ClassPlusEnds(s, j + 2, LineTerminators)}

\* The ends when the second group is (.*): it may be empty.
UrnEmptyNssPatternEnds(s) ==
    IF Len(s) < Len(Urn_PREFIX) \/ SubSeq(s, 1, Len(Urn_PREFIX)) # Urn_PREFIX
    THEN {}
    ELSE {j \in ClassPlusEnds(s, Len(Urn_PREFIX) + 1, {Urn_SEPARATOR}) :
              /\ j < Len(s)
              /\ s[j + 1] = Urn_SEPARATOR
              /\ \A k \in (j + 2)..Len(s) : s[k] \notin LineTerminators}

\* The ends of the first group in the matches of ^urn:([^:]+):(.+)$
UrnPatternEnds(s) ==
    IF Len(s) < Len(Urn_PREFIX) \/ SubSeq(s, 1, Len(Urn_PREFIX)) # Urn_PREFIX
    THEN {}
    ELSE {j \in ClassPlusEnds(s, Len(Urn_PREFIX) + 1, {Urn_SEPARATOR}) :
              /\ j < Len(s)
              /\ s[j + 1] = Urn_SEPARATOR
              /\ Len(s) \in ClassPlusEnds(s, j + 2, LineTerminators)}

\* urn.match(Urn.URN_PATTERN)
URN_PATTERN(s) == FirstMatch(s, Len(Urn_PREFIX) + 1, UrnPatternEnds(s))

\* new Urn(nid, nss)
Urn(nid, nss) ==
    [nid |-> nid, nss |-> nss,
     urn |-> Urn_PREFIX \o nid \o <<Urn_SEPARATOR>> \o nss]

\* toString()
UrnToString(u) == u.urn

InvalidUrn == Thrown("InvalidUrn", "Invalid URN", <<>>)

\* Urn.parse(urn): [res, val], val the Urn returned (<<u>>)
UrnOfMatch(match) ==
    IF ~match.ok THEN [res |-> InvalidUrn, val |-> <<>>]
    ELSE [res |-> Returned(JsUndefined, <<>>),
          val |-> <<Urn(match.groups[1], match.groups[2])>>]

UrnParse(urn) == UrnOfMatch(URN_PATTERN(urn))

(***************************************************************************)
(* Dap                                                                     *)
(***************************************************************************)
Dap_PREFIX == 64
Dap_SEPARATOR == 47

\* The ends when the second group is [^/]+: the domain may hold '@'.
DapLooseRegexEnds(s) ==
    IF Len(s) < 1 \/ s[1] # Dap_PREFIX THEN {}
    ELSE {j \in ClassPlusEnds(s, 2, {Dap_PREFIX, Dap_SEPARATOR}) :
              /\ j < Len(s)
              /\ s[j + 1] = Dap_SEPARATOR
              /\ Len(s) \in ClassPlusEnds(s, j + 2, {Dap_SEPARATOR})}

\* The ends of the first group in the matches of ^@([^@/]+)/([^@/]+)$
DapRegexEnds(s) ==
    IF Len(s) < 1 \/ s[1] # Dap_PREFIX THEN {}
    ELSE {j \in ClassPlusEnds(s, 2, {Dap_PREFIX, Dap_SEPARATOR}) :
              /\ j < Len(s)
              /\ s[j + 1] = Dap_SEPARATOR
              /\ Len(s) \in ClassPlusEnds(s, j + 2, {Dap_PREFIX, Dap_SEPARATOR})}

\* dap.match(Dap.DAP_REGEX)
DAP_REGEX(s) == FirstMatch(s, 2, DapRegexEnds(s))

\* new Dap(handle, domain)
Dap(handle, domain) == [handle |-> handle, domain |-> domain]

\* toString()
DapToString(d) ==
    <<Dap_PREFIX>> \o d.handle \o <<Dap_SEPARATOR>> \o d.domain

InvalidDap == Thrown("InvalidDap", "Invalid DAP", <<>>)

\* Dap.parse(dap): [res, val], val the Dap returned (<<d>>)
DapOfMatch(match) ==
    IF ~match.ok THEN [res |-> InvalidDap, val |-> <<>>]
    ELSE [res |-> Returned(JsUndefined, <<>>),
          val |-> <<Dap(match.groups[1], match.groups[2])>>]

DapParse(dap) == DapOfMatch(DAP_REGEX(dap))

(***************************************************************************)
(* Calls of the identifier types.  A caller holds a string, parses it,     *)
(* keeps the value returned (with the string it came from) and may ask the *)
(* value for its string.  The strings are all strings up to a length over  *)
(* a few characters: a letter, the separators, a line feed and U+2028.     *)
(***************************************************************************)
MaxUrnLen == 4
MaxDapLen == 5

StringsOver(chars, n) == UNION {[1..k -> chars] : k \in 0..n}

\* 'a', ':', line feed, U+2028
UrnChars == {97, Urn_SEPARATOR, 10, 8232}

\* the prefix, and prefixes that are not it
UrnStarts == {Urn_PREFIX, <<117, 114, 110>>, <<>>, <<85, 82, 78, 58>>, <<97, 117, 114, 110, 58>>}

UrnInputs ==
    {start \o body : start \in UrnStarts, body \in StringsOver(UrnChars, MaxUrnLen)}
    \cup {<<117, 114, 110, 58, 97, 58, 98>> \o <<13>> \o <<99>>, <<117, 114, 110, 58, 97, 58, 98>> \o <<8233>>,
          <<117, 114, 110, 58, 101, 120, 97, 109, 112, 108, 101, 58, 97, 49, 50, 51, 44, 122, 52, 53, 54>>, <<117, 114, 110, 58, 101, 120, 97, 109, 112, 108, 101, 58, 97, 49, 50, 51, 58, 122, 52, 53, 54, 58, 101, 120, 116, 114, 97>>}

\* 'a', '@', '/', line feed
DapChars == {97, Dap_PREFIX, Dap_SEPARATOR, 10}

DapInputs ==
    StringsOver(DapChars, MaxDapLen)
    \cup {<<64, 109, 111, 101, 103, 114, 97, 109, 109, 101, 114, 47, 100, 105, 100, 112, 97, 121, 46, 109, 101>>, <<109, 111, 101, 103, 114, 97, 109, 109, 101, 114, 47, 100, 105, 100, 112, 97, 121, 46, 109, 101>>, <<64, 109, 111, 101, 103, 114, 97, 109, 109, 101, 114>>,
          <<64, 109, 111, 101, 103, 114, 97, 109, 109, 101, 114, 47, 100, 105, 100, 112, 97, 121, 46, 109, 101, 47>>, <<64, 109, 111, 101, 103, 114, 97, 109, 109, 101, 114, 64, 100, 105, 100, 112, 97, 121, 46, 109, 101>>}

\* The encoded parts given to RegistrationId.parse: 26 characters of the
\* alphabet, too few, too many, none, a character outside the alphabet, a
\* first character above '7'.
SuffixInputs ==
    {<<48, 49, 104, 52, 53, 53, 118, 98, 52, 112, 101, 120, 53, 118, 115, 107, 110, 107, 48, 56, 52, 115, 110, 48, 50, 113>>, <<49, 50, 51, 52, 53, 54, 55, 56, 57, 48, 97, 98, 99, 100, 101, 102, 49, 50, 51, 52, 53, 54, 55, 56, 57, 48>>,
     <<49, 50, 51, 52, 53, 54, 55, 56, 57, 48, 97, 98, 99, 100, 101, 102>>, <<48, 49, 104, 52, 53, 53, 118, 98, 52, 112, 101, 120, 53, 118, 115, 107, 110, 107, 48, 56, 52, 115, 110, 48, 50, 113, 113>>, <<>>,
     <<48, 49, 104, 52, 53, 53, 118, 98, 52, 112, 101, 120, 53, 118, 115, 107, 110, 107, 48, 56, 52, 115, 110, 48, 50, 108>>, <<56, 49, 104, 52, 53, 53, 118, 98, 52, 112, 101, 120, 53, 118, 115, 107, 110, 107, 48, 56, 52, 115, 110, 48, 50, 113>>}

TypeInputs == {STR_reg, <<117, 115, 101, 114>>, <<114>>, <<82, 69, 71>>, <<114, 101, 57>>}

RegistrationIdInputs ==
    {JsString(type \o <<95>> \o suffix) : type \in TypeInputs, suffix \in SuffixInputs}
    \cup {JsString(suffix) : suffix \in SuffixInputs}
    \cup {JsString(<<95>> \o suffix) : suffix \in SuffixInputs}
    \cup {JsNumber(<<50>>), JsNull, JsUndefined}

\* What the caller holds at first: a string to parse.
HeldInput(kind, input) == <<[kind |-> kind, input |-> input, value |-> <<>>]>>

InitIds ==
    /\ reg = create(CHOOSE id \in Ids : TRUE, CHOOSE h \in Handles : TRUE,
                    DID_A, CHOOSE d \in Domains : TRUE)
    /\ signedAs = <<>>
    /\ held \in {HeldInput("urn", s) : s \in UrnInputs}
           \cup {HeldInput("dap", s) : s \in DapInputs}
           \cup {HeldInput("id", id) : id \in RegistrationIdInputs}
    /\ out = Done("create")
    /\ gen = NewV7Generator

\* What the caller keeps of a parse: the value returned with the string it
\* came from, nothing when parse threw.
HeldValue(kind, input, parsed) ==
    IF parsed.val = <<>> THEN <<>>
    ELSE <<[kind |-> kind, input |-> input, value |-> parsed.val[1]]>>

IdOutcome(op, raw, res) == Outcome(op, raw, NoPayload, res, <<>>)

\* urn = Urn.parse(s)
CallUrnParse ==
    /\ held # <<>>
    /\ held[1].kind = "urn"
    /\ held' = HeldValue("Urn", held[1].input, UrnParse(held[1].input))
    /\ out' = IdOutcome("Urn.parse", JsString(held[1].input),
                        UrnParse(held[1].input).res)
    /\ UNCHANGED <<reg, signedAs, gen>>

\* urn.toString()
CallUrnToString ==
    /\ held # <<>>
    /\ held[1].kind = "Urn"
    /\ out' = IdOutcome("Urn.toString", JsUndefined,
                        Returned(JsString(UrnToString(held[1].value)), <<>>))
    /\ UNCHANGED <<reg, signedAs, held, gen>>

\* dap = Dap.parse(s)
CallDapParse ==
    /\ held # <<>>
    /\ held[1].kind = "dap"
    /\ held' = HeldValue("Dap", held[1].input, DapParse(held[1].input))
    /\ out' = IdOutcome("Dap.parse", JsString(held[1].input),
                        DapParse(held[1].input).res)
    /\ UNCHANGED <<reg, signedAs, gen>>

\* dap.toString()
CallDapToString ==
    /\ held # <<>>
    /\ held[1].kind = "Dap"
    /\ out' = IdOutcome("Dap.toString", JsUndefined,
                        Returned(JsString(DapToString(held[1].value)), <<>>))
    /\ UNCHANGED <<reg, signedAs, held, gen>>

\* The outcome of RegistrationId.parse as the outcome of a call.
RegistrationIdOutcome(id, parsed) ==
    IdOutcome("RegistrationId.parse", id,
              IF parsed.ok THEN Returned(JsString(IdToString(parsed.id)), <<>>)
              ELSE Thrown(parsed.err, parsed.msg, <<>>))

\* RegistrationId.parse(id)
CallRegistrationIdParse ==
    /\ held # <<>>
    /\ held[1].kind = "id"
    /\ held' = <<>>
    /\ out' = RegistrationIdOutcome(held[1].input,
                                    RegistrationIdParse(held[1].input))
    /\ UNCHANGED <<reg, signedAs, gen>>

NextIds ==
    \/ CallUrnParse
    \/ CallUrnToString
    \/ CallDapParse
    \/ CallDapToString
    \/ CallRegistrationIdParse

SpecIds == InitIds /\ [][NextIds]_vars

(***************************************************************************)
(* Properties of Urn, Dap and RegistrationId.parse, over SpecIds.          *)
(***************************************************************************)

\* The string is 'urn:', a non-empty nid without ':', ':' at i, and a
\* non-empty nss.
UrnFormAt(s, i) ==
    /\ Len(s) > i
    /\ i > 5
    /\ SubSeq(s, 1, 4) = <<117, 114, 110, 58>>
    /\ s[i] = 58
    /\ \A k \in 5..(i - 1) : s[k] # 58

IsUrnForm(s) == \E i \in 1..Len(s) : UrnFormAt(s, i)

NidEnd(s) == CHOOSE i \in 1..Len(s) : UrnFormAt(s, i)

HasLineTerminator(s) == \E k \in 1..Len(s) : s[k] \in {10, 13, 8232, 8233}

UrnIs(u, s, i) ==
    /\ u.nid = SubSeq(s, 5, i - 1)
    /\ u.nss = SubSeq(s, i + 1, Len(s))

\* C12, as stated: for every string urn:<nid>:<nss> with a non-empty nid
\* without ':' and a non-empty nss, Urn.parse returns the nid up to the
\* first ':' and the nss after it, and toString() of it is the string.
C12_UrnRoundTrip ==
    /\ (out.op = "Urn.parse" /\ IsUrnForm(out.raw.s))
           => /\ out.res.ok
              /\ held # <<>>
              /\ UrnIs(held[1].value, out.raw.s, NidEnd(out.raw.s))
    /\ out.op = "Urn.toString" => out.res.val = JsString(held[1].input)

\* C12, amended: the same for the strings whose nss holds no line
\* terminator (line feed, carriage return, U+2028, U+2029).
C12_UrnRoundTripOnOneLine ==
    /\ (/\ out.op = "Urn.parse"
        /\ IsUrnForm(out.raw.s)
        /\ ~HasLineTerminator(SubSeq(out.raw.s, NidEnd(out.raw.s) + 1,
                                     Len(out.raw.s))))
           => /\ out.res.ok
              /\ held # <<>>
              /\ UrnIs(held[1].value, out.raw.s, NidEnd(out.raw.s))
    /\ out.op = "Urn.toString" => out.res.val = JsString(held[1].input)

C12_Witness ==
    /\ out.op = "Urn.toString"
    /\ held[1].value.nid = <<97>>
    /\ held[1].value.nss = <<58, 97>>
    /\ out.res.val = JsString(held[1].input)

\* C13: Urn.parse throws InvalidUrn 'Invalid URN' for every string that is
\* not urn:<nid>:<nss> with non-empty nid and nss: the empty string, no
\* prefix, an empty nid, no second separator, an empty nss.
C13_NotUrnIsInvalidUrn ==
    (out.op = "Urn.parse" /\ ~IsUrnForm(out.raw.s))
        => /\ ~out.res.ok
           /\ out.res.err = "InvalidUrn"
           /\ out.res.msg = "Invalid URN"
           /\ held = <<>>

C13_Witness ==
    /\ out.op = "Urn.parse"
    /\ out.raw.s = <<117, 114, 110, 58, 97, 58>>
    /\ out.res.err = "InvalidUrn"

\* The string is '@', a non-empty handle, '/' at i, a non-empty domain, and
\* holds no other '@' or '/'.
DapFormAt(s, i) ==
    /\ Len(s) > i
    /\ i > 2
    /\ s[1] = 64
    /\ s[i] = 47
    /\ \A k \in 2..Len(s) : k # i => s[k] \notin {64, 47}

IsDapForm(s) == \E i \in 1..Len(s) : DapFormAt(s, i)

HandleEnd(s) == CHOOSE i \in 1..Len(s) : DapFormAt(s, i)

\* C14: Dap.parse returns handle and domain exactly for the strings
\* '@' handle '/' domain with non-empty parts free of '@' and '/', and
\* toString() of the value is the string; for every other string it throws
\* InvalidDap.
C14_DapParsesExactlyTheGrammar ==
    /\ out.op = "Dap.parse"
           => IF IsDapForm(out.raw.s)
              THEN /\ out.res.ok
                   /\ held # <<>>
                   /\ held[1].value.handle
                          = SubSeq(out.raw.s, 2, HandleEnd(out.raw.s) - 1)
                   /\ held[1].value.domain
                          = SubSeq(out.raw.s, HandleEnd(out.raw.s) + 1, Len(out.raw.s))
              ELSE /\ ~out.res.ok
                   /\ out.res.err = "InvalidDap"
                   /\ held = <<>>
    /\ out.op = "Dap.toString" => out.res.val = JsString(held[1].input)

C14_Witness ==
    /\ out.op = "Dap.toString"
    /\ held[1].input = <<64, 109, 111, 101, 103, 114, 97, 109, 109, 101, 114, 47, 100, 105, 100, 112, 97, 121, 46, 109, 101>>
    /\ held[1].value = Dap(<<109, 111, 101, 103, 114, 97, 109, 109, 101, 114>>, <<100, 105, 100, 112, 97, 121, 46, 109, 101>>)
    /\ out.res.val = JsString(held[1].input)

\* An encoded part that is well formed: 26 characters of the alphabet, the
\* first at most '7'.
WellFormedSuffix(s) ==
    /\ Len(s) = 26
    /\ \A i \in 1..Len(s) :
           s[i] \in (48..57) \cup ((97..122) \ {105, 108, 111, 117})
    /\ s[1] <= 55

\* A type prefix: lower-case letters.
IsType(s) == Len(s) > 0 /\ \A i \in 1..Len(s) : s[i] \in 97..122

\* The string is 'reg_' and an encoded part (no '_') of the wrong length.
RegWithWrongLength(s) ==
    /\ Len(s) >= 4
    /\ SubSeq(s, 1, 4) = <<114, 101, 103, 95>>
    /\ Len(s) # 4 + 26
    /\ \A i \in 5..Len(s) : s[i] # 95

\* The string is a well-formed encoded part under a type that is not 'reg',
\* or under no type.
OtherTypeAt(s, n) ==
    /\ WellFormedSuffix(SubSeq(s, n + 1, Len(s)))
    /\ \/ n = 0
       \/ /\ n > 1
          /\ s[n] = 95
          /\ IsType(SubSeq(s, 1, n - 1))
          /\ SubSeq(s, 1, n - 1) # <<114, 101, 103>>

HasOtherType(s) == Len(s) >= 26 /\ OtherTypeAt(s, Len(s) - 26)

MaxSameMs == 2

MaxOverflows == 1

T_MIN == Wide(0, 1)

T_1970_01_02 == Wide(5, 2513920)           \* 86400000

T_2021_07_15 == Wide(96935, 7767040)       \* 1626307200000

T_2100_01_01 == Wide(244524, 12834816)     \* 4102444800000

Times ==
    {T_MIN, T_1970_01_02, T_2021_07_15, WidePlus(T_2021_07_15, 1),
     WidePlus(T_2021_07_15, 10000), WidePlus(T_2021_07_15, 10001),
     T_2100_01_01, MAX_TIMESTAMP}

Randoms == {Random(Wide(0, 0), 0), Random(MAX_COUNTER, 1)}

\* the generator states the model follows
Followed(g) ==
    /\ g.overflows <= MaxOverflows
    /\ \/ g.counter = MAX_COUNTER
       \/ g.counter.hi = 0 /\ g.counter.lo <= MaxSameMs

Made(now, before, id) == [kind |-> "RegistrationId", now |-> now, before |-> before, value |-> id]

JsMillis(ms) ==
    IF ms.nan THEN [t |-> "number", s |-> "NaN", m |-> <<>>]
    ELSE [t |-> "number", s |-> <<ms.val.hi, ms.val.lo>>, m |-> <<>>]

JsDate(date) ==
    IF date.invalid THEN [t |-> "Date", s |-> "Invalid Date", m |-> <<>>]
    ELSE [t |-> "Date", s |-> <<date.time.hi, date.time.lo>>, m |-> <<>>]

InitTime ==
    /\ reg = create(CHOOSE id \in Ids : TRUE, CHOOSE h \in Handles : TRUE,
                    CHOOSE d \in Dids : TRUE, CHOOSE d \in Domains : TRUE)
    /\ signedAs = <<>>
    /\ held = <<>>
    /\ out = Done("create")
    /\ gen = NewV7Generator

CreateOutcome(made) ==
    IdOutcome("RegistrationId.create", JsUndefined,
              IF made.ok THEN Returned(JsString(IdToString(made.id)), <<>>)
              ELSE Thrown(made.err, made.msg, <<>>))

\* id = RegistrationId.create(), Date.now() being now
CallRegistrationIdCreate(now, rand) ==
    /\ Followed(GeneratorStep(gen, now, rand))
    /\ gen' = GeneratorStep(gen, now, rand)
    /\ held' = IF RegistrationIdCreate(gen, now, rand).ok
               THEN <<Made(now, gen.timestamp,
                           RegistrationIdCreate(gen, now, rand).id)>>
               ELSE held
    /\ out' = CreateOutcome(RegistrationIdCreate(gen, now, rand))
    /\ UNCHANGED <<reg, signedAs>>

\* id.extractTimestamp()
CallExtractTimestamp ==
    /\ held # <<>>
    /\ out' = IdOutcome("extractTimestamp", JsString(IdToString(held[1].value)),
                        Returned(JsMillis(extractTimestamp(held[1].value)), <<>>))
    /\ UNCHANGED <<reg, signedAs, held, gen>>

\* id.extractDate()
CallExtractDate ==
    /\ held # <<>>
    /\ out' = IdOutcome("extractDate", JsString(IdToString(held[1].value)),
                        Returned(JsDate(extractDate(held[1].value)), <<>>))
    /\ UNCHANGED <<reg, signedAs, held, gen>>

NextTime ==
    \/ \E now \in Times, rand \in Randoms : CallRegistrationIdCreate(now, rand)
    \/ CallExtractTimestamp
    \/ CallExtractDate

SpecTime == InitTime /\ [][NextTime]_vars

(***************************************************************************)
(* Claims about the timestamp of a RegistrationId (SpecTime).              *)
(***************************************************************************)
\* the number t, as extractTimestamp returns it
Number(t) == JsMillis([nan |-> FALSE, val |-> t])

DateOf(t) == JsDate([time |-> t, invalid |-> FALSE])

\* The clock has moved forward since the generator's last id, or back by
\* more than 10 seconds.
ClockMoved(made) ==
    \/ WideLess(made.before, made.now)
    \/ WideLess(WidePlus(made.now, 10000), made.before)

ReadsBack(t) ==
    /\ out.op = "extractTimestamp" => out.res.val = Number(t)
    /\ out.op = "extractDate" => out.res.val = DateOf(t)

\* C15, as stated: an id made by RegistrationId.create() at time t has
\* extractTimestamp() = t and extractDate() the date of t, whatever t between
\* 1 and 2^48 - 1.
C15_TimestampIsCreationTime ==
    held # <<>> => ReadsBack(held[1].now)

\* id' is made one millisecond after id, and its timestamp is one more
OneMillisecondApart ==
    (/\ held # <<>>
     /\ held' # <<>>
     /\ out'.op = "RegistrationId.create"
     /\ out'.res.ok
     /\ ClockMoved(held[1])
     /\ held'[1].now = WidePlus(held[1].now, 1))
        => extractTimestamp(held'[1].value).val
               = WidePlus(extractTimestamp(held[1].value).val, 1)

\* C15, amended: an id made by RegistrationId.create() at a time t between 1
\* and 2^48 - 1 that is later than the timestamp of the last id the process
\* made, or more than 10 seconds earlier than it, has extractTimestamp() = t
\* and extractDate() the date of t; an id made one millisecond after such an
\* id has a timestamp greater by exactly 1.
C15_TimestampIsCreationTimeWhenClockMoved ==
    /\ [](held # <<>> /\ ClockMoved(held[1]) => ReadsBack(held[1].now))
    /\ [][OneMillisecondApart]_vars

\* An id made on 1970-01-02, after one made in 2100, reads back 86400000.
C15_Witness ==
    /\ held # <<>>
    /\ held[1].now = T_1970_01_02
    /\ held[1].before = T_2100_01_01
    /\ out.op = "extractTimestamp"
    /\ out.res.val = Number(T_1970_01_02)

(***************************************************************************)
(* SpecSign: calls of registration.sign(did) on one record that run        *)
(* concurrently.  A call reads the fields when it is made (computeDigest   *)
(* builds its payload before its first await), then is suspended at each   *)
(* await: of the digest, of did.getSigner(), of signer.sign() and of the   *)
(* promise of Crypto.sign; it stores the signature when it is resumed the  *)
(* last time.  held is the calls made, each with its locals and position;  *)
(* signedAs lists the calls that have completed, in the order they did.    *)
(***************************************************************************)
MaxCalls == 2

SigningDids == {Alice, Bob}

Frame(did, pc, rec, payload, jws, stale) ==
    [did |-> did, pc |-> pc, rec |-> rec, payload |-> payload, jws |-> jws,
     stale |-> stale]

SignStep(pc) ==
    Outcome("sign", JsUndefined, NoPayload, Returned(JsUndefined, <<pc>>), <<>>)

InitSign ==
    /\ \E handle \in Handles, did \in Dids :
           reg = create(CHOOSE id \in Ids : TRUE, handle, did,
                        CHOOSE d \in Domains : TRUE)
    /\ signedAs = <<>>
    /\ held = <<>>
    /\ out = Done("create")
    /\ gen = NewV7Generator

\* this.signature = ..., keeping a signature already stored.
StoreSignatureOnce(r, jws) ==
    IF r.signature = JsUndefined THEN [r EXCEPT !.signature = JsString(jws)]
    ELSE r

\* this.signature = <the compact JWS Crypto.sign resolved to>
StoreSignature(r, jws) == [r EXCEPT !.signature = JsString(jws)]

\* registration.sign(did) is called: const payload = await this.computeDigest()
CallSign(did) ==
    /\ Len(held) < MaxCalls
    /\ held' = Append(held, Frame(did, "computeDigest", reg, computeDigest(reg),
                                  <<>>, FALSE))
    /\ out' = SignStep("computeDigest")
    /\ UNCHANGED <<reg, signedAs, gen>>

\* the digest is there: Crypto.sign is called, const signer = await
\* did.getSigner()
ResumeDigest(i) ==
    /\ held[i].pc = "computeDigest"
    /\ held' = [held EXCEPT ![i].pc = "getSigner"]
    /\ out' = SignStep("getSigner")
    /\ UNCHANGED <<reg, signedAs, gen>>

\* the signer is there: const signatureBytes = await signer.sign({ data })
ResumeSigner(i) ==
    /\ held[i].pc = "getSigner"
    /\ held' = [held EXCEPT ![i].pc = "signer.sign"]
    /\ out' = SignStep("signer.sign")
    /\ UNCHANGED <<reg, signedAs, gen>>

\* the signature bytes are there: Crypto.sign returns the compact JWS, which
\* sign() awaits
ResumeSigned(i) ==
    /\ held[i].pc = "signer.sign"
    /\ held' = [held EXCEPT ![i].pc = "Crypto.sign",
                            ![i].jws = CryptoSign(held[i].did, held[i].payload, TRUE)]
    /\ out' = SignStep("Crypto.sign")
    /\ UNCHANGED <<reg, signedAs, gen>>

\* this.signature = <the compact JWS>, and the call completes
ResumeAssign(i) ==
    /\ held[i].pc = "Crypto.sign"
    /\ reg' = StoreSignature(reg, held[i].jws)
    /\ held' = [held EXCEPT ![i].pc = "done"]
    /\ signedAs' = Append(signedAs, [signer |-> held[i].did, rec |-> reg', call |-> i])
    /\ out' = Done("sign")
    /\ UNCHANGED gen

\* registration.handle = ... while a call of sign() is in flight (the first
\* such assignment: the calls made are marked, and the model follows no
\* further one)
AssignWhileSigning(handle) ==
    /\ \E i \in 1..Len(held) : held[i].pc # "done"
    /\ \A i \in 1..Len(held) : ~held[i].stale
    /\ JsString(handle) # reg.handle
    /\ reg' = [reg EXCEPT !.handle = JsString(handle)]
    /\ held' = [i \in 1..Len(held) |-> [held[i] EXCEPT !.stale = TRUE]]
    /\ out' = Done("assign")
    /\ UNCHANGED <<signedAs, gen>>

NextSign ==
    \/ \E did \in SigningDids : CallSign(did)
    \/ \E i \in 1..Len(held) : ResumeDigest(i)
    \/ \E i \in 1..Len(held) : ResumeSigner(i)
    \/ \E i \in 1..Len(held) : ResumeSigned(i)
    \/ \E i \in 1..Len(held) : ResumeAssign(i)
    \/ \E handle \in Handles : AssignWhileSigning(handle)

SpecSign == InitSign /\ [][NextSign]_vars

(***************************************************************************)
(* Claims about concurrent calls of sign() (SpecSign).                     *)
(***************************************************************************)
AllCompleted == \A i \in 1..Len(held) : held[i].pc = "done"

NoFieldChanged == \A i \in 1..Len(held) : ~held[i].stale

SameFields(r, s) ==
    r.id = s.id /\ r.handle = s.handle /\ r.did = s.did /\ r.domain = s.domain

\* The stored signature is the complete output of the call that completed
\* last, and a valid detached signature over the digest of the record.
StoredIsOutputOf(last) ==
    /\ reg.signature = JsString(held[last.call].jws)
    /\ held[last.call].jws = CryptoSign(last.signer, computeDigest(reg), TRUE)
    /\ CryptoVerify(reg.signature, Detached(computeDigest(reg))).ok
    /\ CryptoVerify(reg.signature, Detached(computeDigest(reg))).val
           = JsString(last.signer.uri)

\* C17: if no field of the record changes while calls of sign() are in
\* flight, then however two concurrent calls interleave at their awaits,
\* once both have completed the stored signature is exactly the output of
\* the call that completed last and a valid detached signature over the
\* record's digest; and sign() changes no field other than signature.
C17_LastCompletedSignWins ==
    NoFieldChanged =>
        /\ \A i \in 1..Len(held) : SameFields(reg, held[i].rec)
        /\ (Len(held) >= 2 /\ AllCompleted) =>
               StoredIsOutputOf(signedAs[Len(signedAs)])

\* Alice's call is made first and Bob's while it is in flight; Bob's
\* completes first, Alice's last, and the signature stored is Alice's.
C17_Witness ==
    /\ Len(held) = 2
    /\ AllCompleted
    /\ NoFieldChanged
    /\ held[1].did = Alice
    /\ held[2].did = Bob
    /\ Len(signedAs) = 2
    /\ signedAs[1].call = 2
    /\ signedAs[2].call = 1
    /\ reg.signature = JsString(held[1].jws)
    /\ held[1].jws # held[2].jws

====
